---- MODULE Spec2Model ----
(***************************************************************************)
(* PupPal_Zurich: the recommendation core.                                 *)
(*                                                                         *)
(* Real numbers are kept exact as fixed-point integers or as fractions     *)
(* [num, den] with den > 0:                                                *)
(*   - sub-scores of User.compare are in units of 1/Scale (0.0001);        *)
(*   - the blended similarity is in units of 1/(10*Scale) (0.00001);       *)
(*   - a smoothed breed score is the fraction num/den of that unit;        *)
(*   - a normalized preference score is the fraction num/den of 1;         *)
(*   - the scores of curve_data are in units of 1/CurveUnit, and its       *)
(*     inputs are those for which the logarithm and the power are          *)
(*     rational, so that both are computed exactly.                        *)
(* Python's binary floating point rounding is not modelled.                *)
(***************************************************************************)
EXTENDS Integers, Sequences, FiniteSets, TLC

VARIABLES
    \* ---- User.compare (userdata.py) and District (districts.py)
    district_distances,  \* district id -> that district's __district_distances
                         \* (values in units of 1/Scale, or the fractions
                         \* apply_district_distances stored)
    cmp_self,            \* the profile compare is called on
    cmp_other,           \* the profile passed to compare
    cmp_result,          \* outcome of the last compare call
    \* ---- get_demographic_recommendations (user_demographics.py)
    graph_vertices,      \* Graph._vertices keys
    graph_neighbours,    \* item -> set of neighbouring items
    input_user,          \* the query profile
    limit,               \* the requested number of results
    dog_breed_score,     \* the dict breed -> smoothed score
    breed_order,         \* iteration order of dog_breed_score
    top_matches,         \* the list under construction
    rank_pc,             \* "idle", "loop", "returned", or the exception raised
    \* ---- get_preference_recommendations (user_preference.py)
    pref_breeds,         \* the list of breed trait records
    pref_weights,        \* the twelve weights
    pref_limit,          \* the requested number of results
    pref_index,          \* number of breeds already processed
    breed_scores,        \* the list under construction
    pref_result,         \* the returned list
    pref_pc,             \* "idle", "loop", "returned"
    \* ---- normalize_preference_recommendations (user_preference.py)
    norm_scores,         \* the input list of (name, raw score)
    norm_result,         \* the returned list of (name, fraction)
    norm_pc,             \* "unused", "idle", "returned", "ZeroDivisionError"
    \* ---- Tree (breeds_decision_tree.py)
    tree,                \* the root Tree
    tree_inserted,       \* history: the sequences passed to insert_sequence
    tree_choices,        \* argument of the last decision_tree_method call
    tree_result,         \* what that call returned
    tree_pc,             \* "unused", "built", "looked_up"
    \* ---- Graph and WeightedGraph (graphs.py); the vertex keys and the
    \* ---- neighbour sets of a Graph are graph_vertices and graph_neighbours
    graph_class,         \* "unused", "Graph", "WeightedGraph"
    wgraph_neighbours,   \* WeightedGraph: item -> dict neighbour -> weight
    graph_outcome,       \* how the last call ended, and what it returned
    edge_history,        \* history: {a, b} -> weight of the last add_edge that did not raise
    \* ---- normalize_district_distances, apply_district_distances (data_loader.py)
    raw_district_distances,  \* the dict origin -> dict destination -> distance,
                         \* a fraction: km before the normalization, closeness after
    dist_input,          \* history: that dict as it was passed in
    dist_pc,             \* "unused", "loaded", "normalized", "applied", or the exception raised
    \* ---- District.set_distance / get_distance called one at a time (districts.py)
    district_history,    \* history: <<self, other>> -> value of the last set_distance call
    district_result,     \* the last get_distance call and how it ended
    district_sets,       \* number of set_distance calls made
    \* ---- weight_raw_preference_data (user_preference.py)
    weigh_args,          \* the fourteen arguments of the call
    weigh_result,        \* the tuple it returned
    weigh_pc,            \* "unused", "called", "returned"
    \* ---- curve_data (main.py)
    curve_target,        \* target_diff_percent, in units of 1/CurveUnit
    curve_list,          \* the list passed as data: (name, score in units of 1/CurveUnit)
    curve_input,         \* history: that list as it was passed in
    curve_result,        \* the returned list
    curve_pc,            \* "unused", "called", "returned", or the exception raised
    \* ---- run_dog_recommender (breeds_decision_tree.py); it also uses tree,
    \* ---- tree_choices, tree_result and tree_pc
    rec_file,            \* the rows of the csv file after the header, each a list of str
    rec_typed,           \* what the user typed at the prompts so far, each a str
    \* ---- load_dog_data (data_loader.py)
    load_file,           \* the rows of the dog data file after the header
    load_pos,            \* position of the row the loop reads next
    load_users,          \* the dict users: user id -> User object
    load_created,        \* number of User objects created so far
    load_graph,          \* graph: vertex -> set of its neighbours
    load_pc,             \* "unused", "reading", "returned", or the exception raised
    \* ---- Questionnaire (main.py)
    questionnaire,       \* the fields of the Questionnaire object and of its window
    callbacks,           \* history: the argument of each answer_callback call, as passed
    quiz_events          \* number of Next-button and Return-key events delivered

cmpVars  == <<district_distances, cmp_self, cmp_other, cmp_result>>
rankVars == <<graph_vertices, graph_neighbours, input_user, limit,
              dog_breed_score, breed_order, top_matches, rank_pc>>
prefVars == <<pref_breeds, pref_weights, pref_limit, pref_index,
              breed_scores, pref_result, pref_pc>>
normVars == <<norm_scores, norm_result, norm_pc>>
treeVars == <<tree, tree_inserted, tree_choices, tree_result, tree_pc>>
graphVars == <<graph_class, wgraph_neighbours, graph_outcome, edge_history>>
distVars == <<raw_district_distances, dist_input, dist_pc>>
districtVars == <<district_history, district_result, district_sets>>
weighVars == <<weigh_args, weigh_result, weigh_pc>>
curveVars == <<curve_target, curve_list, curve_input, curve_result, curve_pc>>
recVars == <<rec_file, rec_typed>>
loadVars == <<load_file, load_pos, load_users, load_created, load_graph, load_pc>>
quizVars == <<questionnaire, callbacks, quiz_events>>
vars     == <<cmpVars, rankVars, prefVars, normVars, treeVars, graphVars, distVars, districtVars, weighVars, curveVars, recVars, loadVars, quizVars>>

(***************************************************************************)
(* Bounds of the model.                                                    *)
(***************************************************************************)
MaxAge == 101          \* largest age drawn for a profile
MaxOwners == 3         \* owner vertices of the demographic graph
MaxBreeds == 2         \* breed vertices of the demographic graph
MaxLimit == 3          \* largest limit K passed to a ranker
MaxPrefBreeds == 3     \* longest breed list given to the decision matrix
MaxNormLen == 3        \* longest list given to the normalizer
MaxRaw == 2            \* raw preference scores are drawn from -1 .. MaxRaw
MaxSeqLen == 2         \* longest sequence inserted into / looked up in a Tree
MaxInserts == 2        \* number of insert_sequence calls
MaxItems == 3          \* items offered to add_vertex / add_edge of a graph
MaxWeight == 2         \* explicit edge weights are drawn from 2 .. MaxWeight
MaxSets == 2           \* number of set_distance calls made one at a time
MaxAnswer == 3         \* numeric answers of the preference questions are drawn from 1 .. MaxAnswer
MaxCurveLen == 3       \* longest list given to curve_data
MaxRows == 2           \* rows of the csv file read by build_decision_tree
MaxDogRows == 2        \* rows of the dog data file read by load_dog_data
MaxQuestions == 2      \* longest list of questions given to a Questionnaire
MaxEvents == 4         \* Next-button and Return-key events delivered to a Questionnaire

(***************************************************************************)
(* Generic helpers.                                                        *)
(***************************************************************************)
Range(s) == {s[i] : i \in DOMAIN s}

SeqsUpTo(S, n) == UNION {[1..k -> S] : k \in 0..n}

Abs(x) == IF x < 0 THEN -x ELSE x

\* the empty dict / None of an optional mapping
EmptyMap == [x \in {} |-> 0]

(***************************************************************************)
(* districts.py                                                            *)
(***************************************************************************)
Scale == 10000

DistrictIds == {1, 2, 3}

\* District.get_distance answering 0 where line 38 raises
get_distance_DefaultZero(dd, self_d, other_d) ==
    IF other_d = self_d
    THEN [ok |-> TRUE, value |-> Scale]
    ELSE IF DOMAIN dd[self_d] = {} \/ other_d \notin DOMAIN dd[self_d]
         THEN [ok |-> TRUE, value |-> 0]
         ELSE [ok |-> TRUE, value |-> dd[self_d][other_d]]

\* District.get_distance: [ok, value]; ok = FALSE is RuntimeError
get_distance(dd, self_d, other_d) ==
    IF other_d = self_d
    THEN [ok |-> TRUE, value |-> Scale]
    ELSE IF DOMAIN dd[self_d] = {} \/ other_d \notin DOMAIN dd[self_d]
         THEN [ok |-> FALSE, value |-> 0]
         ELSE [ok |-> TRUE, value |-> dd[self_d][other_d]]

(***************************************************************************)
(* userdata.py                                                             *)
(***************************************************************************)
Genders == {"F", "M", "O"}

User(id, age, gender, district) ==
    [kind |-> "user", user_id |-> id, age |-> age, gender |-> gender,
     district |-> district]

age_score(self, other) == Scale - Abs(other.age - self.age) * Abs(other.age - self.age)

gender_score(self, other) ==
    IF self.gender = other.gender \/ self.gender = "o" THEN Scale ELSE Scale \div 2

InUnit(x, unit) == 0 <= x /\ x <= unit

\* User.compare: the statements in order, stopping at the first failure.
\* outcome "ok" returns score; "AssertionError" and "RuntimeError" raise.
compare(dd, self, other) ==
    LET a == age_score(self, other)
        g == gender_score(self, other)
        d == get_distance(dd, self.district, other.district)
        s == 4 * a + 2 * g + 4 * d.value
        r(o, at) == [outcome |-> o, failed_at |-> at, age_score |-> a,
                     gender_score |-> g, district_score |-> d.value,
                     score |-> s]
    IN  IF ~InUnit(a, Scale) THEN r("AssertionError", "age_score")
        ELSE IF ~InUnit(g, Scale) THEN r("AssertionError", "gender_score")
        ELSE IF ~d.ok THEN r("RuntimeError", "get_distance")
        ELSE IF ~InUnit(d.value, Scale) THEN r("AssertionError", "district_score")
        ELSE IF ~InUnit(s, 10 * Scale) THEN r("AssertionError", "score")
        ELSE r("ok", "none")

NoResult == [outcome |-> "none"]

\* ---- the state of each component while it is not called
ResolvedDistances ==
    [d \in DistrictIds |->
        [e \in DistrictIds \ {d} |->
            IF {d, e} = {1, 2} THEN 0
            ELSE IF {d, e} = {1, 3} THEN Scale
            ELSE Scale \div 2]]

CmpIdle ==
    /\ district_distances = ResolvedDistances
    /\ cmp_self = User(0, 0, "F", 1)
    /\ cmp_other = User(0, 0, "F", 1)
    /\ cmp_result = NoResult

RankIdle ==
    /\ graph_vertices = {}
    /\ graph_neighbours = EmptyMap
    /\ input_user = User(0, 0, "F", 1)
    /\ limit = 0
    /\ dog_breed_score = EmptyMap
    /\ breed_order = <<>>
    /\ top_matches = <<>>
    /\ rank_pc = "idle"

PrefIdle ==
    /\ pref_breeds = <<>>
    /\ pref_weights = <<>>
    /\ pref_limit = 0
    /\ pref_index = 0
    /\ breed_scores = <<>>
    /\ pref_result = <<>>
    /\ pref_pc = "idle"

NormIdle ==
    /\ norm_scores = <<>>
    /\ norm_result = <<>>
    /\ norm_pc = "unused"

TreeIdle ==
    /\ tree = [root |-> "", subtrees |-> <<>>]
    /\ tree_inserted = {}
    /\ tree_choices = <<>>
    /\ tree_result = <<>>
    /\ tree_pc = "unused"

GraphIdle ==
    /\ graph_class = "unused"
    /\ wgraph_neighbours = EmptyMap
    /\ graph_outcome = [op |-> "none", outcome |-> "none", value |-> [num |-> 0, den |-> 1]]
    /\ edge_history = EmptyMap

DistIdle ==
    /\ raw_district_distances = EmptyMap
    /\ dist_input = EmptyMap
    /\ dist_pc = "unused"

WeighIdle ==
    /\ weigh_args = [answers |-> <<>>, bark_decide |-> "", bark_important |-> 0,
                     stimulation_decide |-> "", stimulation_important |-> 0]
    /\ weigh_result = <<>>
    /\ weigh_pc = "unused"

CurveIdle ==
    /\ curve_target = 0
    /\ curve_list = <<>>
    /\ curve_input = <<>>
    /\ curve_result = <<>>
    /\ curve_pc = "unused"

RecIdle ==
    /\ rec_file = <<>>
    /\ rec_typed = <<>>

LoadIdle ==
    /\ load_file = <<>>
    /\ load_pos = 1
    /\ load_users = EmptyMap
    /\ load_created = 0
    /\ load_graph = EmptyMap
    /\ load_pc = "unused"

QuizIdle ==
    /\ questionnaire = [questions |-> <<>>]
    /\ callbacks = <<>>
    /\ quiz_events = 0

DistrictIdle ==
    /\ district_history = EmptyMap
    /\ district_result = [self |-> 0, other |-> 0, outcome |-> "none", value |-> 0]
    /\ district_sets = 0

(***************************************************************************)
(* SpecCompare: one call of User.compare on two drawn profiles.            *)
(***************************************************************************)
AgeSamples == {0, 15, 50, 100, MaxAge}

ClosenessSamples == {0, Scale \div 2, Scale}

\* distance tables over districts 1 and 2; district 3 is never populated
DistanceTables ==
    {[d \in DistrictIds |->
        IF d = 1 THEN t1 ELSE IF d = 2 THEN t2 ELSE EmptyMap] :
        t1 \in {EmptyMap} \cup {[e \in {2} |-> c] : c \in ClosenessSamples},
        t2 \in {EmptyMap} \cup {[e \in {1} |-> c] : c \in ClosenessSamples}}

CmpInit ==
    /\ district_distances \in DistanceTables
    /\ cmp_self \in {User(1, a, g, d) : a \in AgeSamples, g \in Genders, d \in {1, 2}}
    /\ cmp_other \in {User(2, a, g, d) : a \in AgeSamples, g \in Genders, d \in {1, 2}}
    /\ cmp_result = NoResult

Compare ==
    /\ cmp_result = NoResult
    /\ cmp_result' = compare(district_distances, cmp_self, cmp_other)
    /\ UNCHANGED <<district_distances, cmp_self, cmp_other>>

InitCompare == CmpInit /\ RankIdle /\ PrefIdle /\ NormIdle /\ TreeIdle /\ GraphIdle /\ DistIdle /\ DistrictIdle /\ WeighIdle /\ CurveIdle /\ RecIdle /\ LoadIdle /\ QuizIdle

NextCompare == Compare /\ UNCHANGED <<rankVars, prefVars, normVars, treeVars, graphVars, distVars, districtVars, weighVars, curveVars, recVars, loadVars, quizVars>>

SpecCompare == InitCompare /\ [][NextCompare]_vars

\* C4: for every pair of owner profiles whose districts have closeness values
\* in [0,1] populated, User.compare returns a score in [0.0, 1.0] and none of
\* its range assertions fails.
C4_CompareInRange ==
    (/\ cmp_result.outcome # "none"
     /\ get_distance(district_distances, cmp_self.district, cmp_other.district).ok)
    => (/\ cmp_result.outcome = "ok"
        /\ InUnit(cmp_result.score, 10 * Scale))

\* C5: in User.compare the gender 'O' is compatible with everything: when
\* either profile's gender is 'O' the gender sub-score is the exact-match
\* sub-score 1.0, and F against M scores strictly lower.
C5_OtherGenderCompatible ==
    cmp_result.outcome # "none" =>
        /\ ("O" \in {cmp_self.gender, cmp_other.gender}
               => cmp_result.gender_score = Scale)
        /\ (cmp_self.gender = cmp_other.gender
               => cmp_result.gender_score = Scale)
        /\ ({cmp_self.gender, cmp_other.gender} = {"F", "M"}
               => cmp_result.gender_score < Scale)

(***************************************************************************)
(* graphs.py: the queries the demographic ranker makes.                    *)
(***************************************************************************)
get_all_nodes(V) == V

get_neighbours(V, N, item) == N[item]

(***************************************************************************)
(* user_demographics.py                                                    *)
(***************************************************************************)
Breed(name) == [kind |-> "breed", name |-> name]

isinstance_User(node) == node.kind = "user"

\* a score num/den in units of 1/(10*Scale)
Frac(n, d) == [num |-> n, den |-> d]

FracGT(a, b) == a.num * b.den > b.num * a.den

FracLE(a, b) == a.num * b.den <= b.num * a.den

RECURSIVE SumOver(_, _)
\* sum([f[x] for x in S])
SumOver(f, S) ==
    IF S = {} THEN 0
    ELSE LET x == CHOOSE y \in S : TRUE IN f[x] + SumOver(f, S \ {x})

\* the +7 of line 18, in units of 1/(10*Scale)
SmoothingNumerator == 7 * 10 * Scale

SmoothingDenominator == 10

\* line 18 with the other smoothing constant, +8
average_similarity_plus8(dd, user_owners, user) ==
    LET sim == [target \in user_owners |-> compare(dd, target, user).score]
    IN  Frac(SumOver(sim, user_owners) + 8 * 10 * Scale,
             Cardinality(user_owners) + SmoothingDenominator)

\* line 18: (sum of target.compare(input_user) + 7) / (len(user_owners) + 10)
average_similarity(dd, user_owners, user) ==
    LET sim == [target \in user_owners |-> compare(dd, target, user).score]
    IN  Frac(SumOver(sim, user_owners) + SmoothingNumerator,
             Cardinality(user_owners) + SmoothingDenominator)

\* the exception, if any, the comprehension of line 18 raises for one breed
CompareFailure(dd, user_owners, user) ==
    IF \E t \in user_owners : compare(dd, t, user).outcome # "ok"
    THEN LET t == CHOOSE t \in user_owners : compare(dd, t, user).outcome # "ok"
         IN  compare(dd, t, user).outcome
    ELSE "none"

Perms(S) == {s \in [1..Cardinality(S) -> S] : Range(s) = S}

\* lines 13-20: score every breed; the dict's iteration order is the set's,
\* which Python leaves unspecified
Rank_Start ==
    /\ rank_pc = "idle"
    /\ LET dog_breeds == {node \in get_all_nodes(graph_vertices) : ~isinstance_User(node)}
           owners(b) == get_neighbours(graph_vertices, graph_neighbours, b)
           failing == {b \in dog_breeds :
                         CompareFailure(district_distances, owners(b), input_user) # "none"}
       IN  IF failing # {}
           THEN /\ rank_pc' = CompareFailure(district_distances,
                                  owners(CHOOSE b \in failing : TRUE), input_user)
                /\ UNCHANGED <<dog_breed_score, breed_order, top_matches>>
           ELSE /\ dog_breed_score' =
                      [b \in dog_breeds |->
                          average_similarity(district_distances, owners(b), input_user)]
                /\ breed_order' \in Perms(dog_breeds)
                /\ top_matches' = <<>>
                /\ rank_pc' = "loop"
    /\ UNCHANGED <<graph_vertices, graph_neighbours, input_user, limit>>

RECURSIVE MaxScan_NoUpdate(_, _, _, _)
\* the scan with line 26 (max_score = ...) left out
MaxScan_NoUpdate(order, score, i, best) ==
    IF i > Len(order) THEN best
    ELSE IF FracGT(score[order[i]], best.max_score)
         THEN MaxScan_NoUpdate(order, score, i + 1,
                      [max_score |-> best.max_score, max_breed |-> order[i]])
         ELSE MaxScan_NoUpdate(order, score, i + 1, best)

\* the scan that stops at the first breed it sees
MaxScan_FirstSeen(order, score, i, best) ==
    IF i > Len(order) THEN best
    ELSE [max_score |-> score[order[i]], max_breed |-> order[i]]

RECURSIVE MaxScan(_, _, _, _)
\* lines 22-27: the scan for the first strictly greatest score, from position i
MaxScan(order, score, i, best) ==
    IF i > Len(order) THEN best
    ELSE IF FracGT(score[order[i]], best.max_score)
         THEN MaxScan(order, score, i + 1,
                      [max_score |-> score[order[i]], max_breed |-> order[i]])
         ELSE MaxScan(order, score, i + 1, best)

\* max_score = -1, max_breed = ''
ScanStart == [max_score |-> Frac(-(10 * Scale), 1), max_breed |-> Breed("")]

RemoveAt(s, i) == [j \in 1..(Len(s) - 1) |-> IF j < i THEN s[j] ELSE s[j + 1]]

IndexOf(s, x) == CHOOSE i \in DOMAIN s : s[i] = x

\* lines 21-29: one iteration of the while loop
Rank_Iter ==
    /\ rank_pc = "loop"
    /\ Len(top_matches) < limit
    /\ LET best == MaxScan(breed_order, dog_breed_score, 1, ScanStart)
           max_breed == best.max_breed
       IN  IF max_breed \notin DOMAIN dog_breed_score
           THEN /\ rank_pc' = "KeyError"
                /\ UNCHANGED <<dog_breed_score, breed_order, top_matches>>
           ELSE /\ top_matches' = Append(top_matches, <<max_breed, dog_breed_score[max_breed]>>)
                /\ dog_breed_score' =
                      [b \in DOMAIN dog_breed_score \ {max_breed} |-> dog_breed_score[b]]
                /\ breed_order' = RemoveAt(breed_order, IndexOf(breed_order, max_breed))
                /\ rank_pc' = "loop"
    /\ UNCHANGED <<graph_vertices, graph_neighbours, input_user, limit>>

\* line 30
Rank_Return ==
    /\ rank_pc = "loop"
    /\ ~(Len(top_matches) < limit)
    /\ rank_pc' = "returned"
    /\ UNCHANGED <<graph_vertices, graph_neighbours, input_user, limit,
                   dog_breed_score, breed_order, top_matches>>

\* ---- the graphs the ranker is run on
BreedPool == <<"Labrador", "Beagle", "Pug", "Collie", "Boxer">>

OwnerPool ==
    << User(1, 0, "M", 1), User(2, 0, "M", 2), User(3, 100, "M", 2),
       User(4, 50, "F", 3), User(5, 15, "O", 1) >>

Breeds == {Breed(BreedPool[i]) : i \in 1..MaxBreeds}

Owners == {OwnerPool[i] : i \in 1..MaxOwners}

\* the symmetric neighbour map of the edge set E (pairs <<breed, owner>>)
NeighbourMap(V, E) ==
    [v \in V |-> {w \in V : <<v, w>> \in E \/ <<w, v>> \in E}]

RankInit ==
    /\ \E B \in SUBSET Breeds :
         \E E \in SUBSET (B \X Owners) :
            /\ graph_vertices = B \cup Owners
            /\ graph_neighbours = NeighbourMap(B \cup Owners, E)
    /\ input_user \in {User(-1, a, g, 1) : a \in {0, 100}, g \in Genders}
    /\ limit \in 0..MaxLimit
    /\ dog_breed_score = EmptyMap
    /\ breed_order = <<>>
    /\ top_matches = <<>>
    /\ rank_pc = "idle"

InitDemo == RankInit /\ CmpIdle /\ PrefIdle /\ NormIdle /\ TreeIdle /\ GraphIdle /\ DistIdle /\ DistrictIdle /\ WeighIdle /\ CurveIdle /\ RecIdle /\ LoadIdle /\ QuizIdle

NextDemo ==
    \/ Rank_Start /\ UNCHANGED <<cmpVars, prefVars, normVars, treeVars, graphVars, distVars, districtVars, weighVars, curveVars, recVars, loadVars, quizVars>>
    \/ Rank_Iter /\ UNCHANGED <<cmpVars, prefVars, normVars, treeVars, graphVars, distVars, districtVars, weighVars, curveVars, recVars, loadVars, quizVars>>
    \/ Rank_Return /\ UNCHANGED <<cmpVars, prefVars, normVars, treeVars, graphVars, distVars, districtVars, weighVars, curveVars, recVars, loadVars, quizVars>>

SpecDemo == InitDemo /\ [][NextDemo]_vars

\* ---- claims about get_demographic_recommendations
NumBreedVertices == Cardinality({v \in graph_vertices : ~isinstance_User(v)})

\* the similarities of a breed's owner-neighbours to the query profile, summed
SimilaritySum(b) ==
    LET owners == graph_neighbours[b]
        sim == [o \in owners |-> compare(district_distances, o, input_user).score]
    IN  SumOver(sim, owners)

\* C1: whenever get_demographic_recommendations returns, the result has at
\* most K entries, each score is <= the score before it, and no entry's item
\* is an owner-profile vertex of the graph.
C1_RankedResult ==
    rank_pc = "returned" =>
        /\ Len(top_matches) <= limit
        /\ \A i \in 2..Len(top_matches) :
              FracLE(top_matches[i][2], top_matches[i - 1][2])
        /\ \A i \in DOMAIN top_matches :
              top_matches[i][1] \notin {v \in graph_vertices : isinstance_User(v)}

\* C1 witness: a call returned two breeds of different score from a graph
\* that holds owner vertices with edges.
C1_Witness ==
    /\ rank_pc = "returned"
    /\ Len(top_matches) = 2
    /\ top_matches[1][2].num * top_matches[2][2].den
          > top_matches[2][2].num * top_matches[1][2].den
    /\ \E v \in graph_vertices : isinstance_User(v) /\ graph_neighbours[v] # {}

\* C2: when the graph holds fewer than K breed vertices the call fails
\* gracefully: it terminates by returning a ranked result that contains every
\* breed once, and raises no error.
C2_FewerBreedsGraceful ==
    NumBreedVertices < limit =>
        /\ rank_pc \notin {"KeyError", "AssertionError", "RuntimeError"}
        /\ (rank_pc = "returned" =>
               /\ Len(top_matches) = NumBreedVertices
               /\ {top_matches[i][1] : i \in DOMAIN top_matches}
                     = {v \in graph_vertices : ~isinstance_User(v)})

\* C3 (as claimed): the score reported for a breed with n owner-neighbours
\* whose similarities sum to S is exactly (S + 8) / (n + 10).
C3_SmoothedPlus8 ==
    \A i \in DOMAIN top_matches :
        LET b == top_matches[i][1]
            n == Cardinality(graph_neighbours[b])
        IN  top_matches[i][2].num * (n + 10)
               = (SimilaritySum(b) + 8 * 10 * Scale) * top_matches[i][2].den

\* C3 (amended): the score reported for a breed with n owner-neighbours whose
\* similarities sum to S is exactly (S + 7) / (n + 10).
C3_SmoothedPlus7 ==
    \A i \in DOMAIN top_matches :
        LET b == top_matches[i][1]
            n == Cardinality(graph_neighbours[b])
        IN  top_matches[i][2].num * (n + 10)
               = (SimilaritySum(b) + 7 * 10 * Scale) * top_matches[i][2].den

\* C3 witness: a reported breed has three owners of similarity 0.9, 0.5 and
\* 0.1 to the query profile, and its score is (0.9 + 0.5 + 0.1 + 7) / 13.
C3_Witness ==
    \E i \in DOMAIN top_matches :
        LET b == top_matches[i][1] IN
        /\ Cardinality(graph_neighbours[b]) = 3
        /\ {compare(district_distances, o, input_user).score : o \in graph_neighbours[b]}
              = {9 * Scale, 5 * Scale, Scale}
        /\ top_matches[i][2] = Frac(85 * Scale, 13)

\* the breeds named by the entries of top_matches
ReturnedBreeds == {top_matches[i][1] : i \in DOMAIN top_matches}

\* the smoothed score of breed vertex b for the query profile
SmoothedScore(b) ==
    average_similarity(district_distances, graph_neighbours[b], input_user)

\* C26: when the graph holds at least K breed vertices and the call returns,
\* the K entries name K distinct breed vertices, and every breed vertex that
\* is not returned has a smoothed score <= the score of every returned entry
\* (so <= the lowest returned score).
C26_TopKDistinctHighest ==
    (rank_pc = "returned" /\ NumBreedVertices >= limit) =>
        /\ Len(top_matches) = limit
        /\ Cardinality(ReturnedBreeds) = limit
        /\ ReturnedBreeds \subseteq {v \in graph_vertices : ~isinstance_User(v)}
        /\ \A b \in {v \in graph_vertices : ~isinstance_User(v)} \ ReturnedBreeds :
              \A i \in DOMAIN top_matches :
                 FracLE(SmoothedScore(b), top_matches[i][2])

\* C26 witness: one of two breeds was returned, and the breed left out has a
\* strictly smaller smoothed score.
C26_Witness ==
    /\ rank_pc = "returned"
    /\ limit = 1
    /\ Len(top_matches) = 1
    /\ \E b \in graph_vertices :
          /\ ~isinstance_User(b)
          /\ b \notin ReturnedBreeds
          /\ FracGT(top_matches[1][2], SmoothedScore(b))

(***************************************************************************)
(* user_preference.py: get_preference_recommendations                      *)
(***************************************************************************)
NumTraits == 12

\* UserPreferenceDogBreed: the name and the twelve trait fields in order
DogBreed(name, traits) == [breed_name |-> name, traits |-> traits]

\* the weighted sum with the magnitude of the shedding weight in line 36
breed_score_AbsShedding(w, dog_breed) ==
    LET t == dog_breed.traits
    IN  w[1] * t[1] + w[2] * t[2] + w[3] * t[3] + Abs(w[4]) * t[4]
        + w[5] * t[5] + w[6] * t[6] + w[7] * t[7] + w[8] * t[8]
        + w[9] * t[9] + w[10] * t[10] + w[11] * t[11] + w[12] * t[12]

\* lines 33-44: the weighted sum, term by term in the order of the source
breed_score(w, dog_breed) ==
    LET t == dog_breed.traits
    IN  w[1] * t[1] + w[2] * t[2] + w[3] * t[3] + w[4] * t[4]
        + w[5] * t[5] + w[6] * t[6] + w[7] * t[7] + w[8] * t[8]
        + w[9] * t[9] + w[10] * t[10] + w[11] * t[11] + w[12] * t[12]

RECURSIVE InsertAsc(_, _)
\* x placed before the first element of a greater score
InsertAsc(sorted, x) ==
    IF sorted = <<>> THEN <<x>>
    ELSE IF Head(sorted)[2] > x[2]
         THEN <<x>> \o sorted
         ELSE <<Head(sorted)>> \o InsertAsc(Tail(sorted), x)

RECURSIVE StableSortAsc(_)
\* list.sort(key=lambda key: key[1]) without reverse=True
StableSortAsc(s) ==
    IF s = <<>> THEN <<>>
    ELSE InsertAsc(StableSortAsc(SubSeq(s, 1, Len(s) - 1)), s[Len(s)])

RECURSIVE InsertDesc(_, _)
\* x placed after every element whose score is >= its own (stability)
InsertDesc(sorted, x) ==
    IF sorted = <<>> THEN <<x>>
    ELSE IF Head(sorted)[2] < x[2]
         THEN <<x>> \o sorted
         ELSE <<Head(sorted)>> \o InsertDesc(Tail(sorted), x)

RECURSIVE StableSortDesc(_)
\* line 46: list.sort(key=lambda key: key[1], reverse=True), a stable sort
StableSortDesc(s) ==
    IF s = <<>> THEN <<>>
    ELSE InsertDesc(StableSortDesc(SubSeq(s, 1, Len(s) - 1)), s[Len(s)])

\* line 47: breed_scores[:limit] for limit >= 0
SliceTo(s, n) == SubSeq(s, 1, IF n < Len(s) THEN n ELSE Len(s))

\* lines 32-46: one iteration of the for loop, the sort included
Pref_Iter ==
    /\ pref_pc = "loop"
    /\ pref_index < Len(pref_breeds)
    /\ LET dog_breed == pref_breeds[pref_index + 1]
       IN  breed_scores' =
              StableSortDesc(Append(breed_scores,
                  <<dog_breed.breed_name, breed_score(pref_weights, dog_breed)>>))
    /\ pref_index' = pref_index + 1
    /\ UNCHANGED <<pref_breeds, pref_weights, pref_limit, pref_result, pref_pc>>

\* line 47
Pref_Return ==
    /\ pref_pc = "loop"
    /\ pref_index = Len(pref_breeds)
    /\ pref_result' = SliceTo(breed_scores, pref_limit)
    /\ pref_pc' = "returned"
    /\ UNCHANGED <<pref_breeds, pref_weights, pref_limit, pref_index, breed_scores>>

\* ---- the inputs: vectors that vary in the shedding and barking entries
VaryingVector(shedding, barking, rest) ==
    [i \in 1..NumTraits |-> IF i = 4 THEN shedding ELSE IF i = 11 THEN barking ELSE rest]

TraitVectors == {VaryingVector(a, b, 3) : a \in {1, 5}, b \in {1, 5}}

WeightVectors ==
    {VaryingVector(a, b, 1) : a \in {-2, 0, 3}, b \in {-2, 0, 3}}
       \cup {VaryingVector(0, 0, 0)}

BreedLists ==
    UNION {{[i \in 1..k |-> DogBreed(BreedPool[i], tv[i])] : tv \in [1..k -> TraitVectors]} :
              k \in 0..MaxPrefBreeds}

PrefInit ==
    /\ pref_breeds \in BreedLists
    /\ pref_weights \in WeightVectors
    /\ pref_limit \in 0..MaxLimit
    /\ pref_index = 0
    /\ breed_scores = <<>>
    /\ pref_result = <<>>
    /\ pref_pc = "loop"

InitPref == PrefInit /\ CmpIdle /\ RankIdle /\ NormIdle /\ TreeIdle /\ GraphIdle /\ DistIdle /\ DistrictIdle /\ WeighIdle /\ CurveIdle /\ RecIdle /\ LoadIdle /\ QuizIdle

NextPref ==
    \/ Pref_Iter /\ UNCHANGED <<cmpVars, rankVars, normVars, treeVars, graphVars, distVars, districtVars, weighVars, curveVars, recVars, loadVars, quizVars>>
    \/ Pref_Return /\ UNCHANGED <<cmpVars, rankVars, normVars, treeVars, graphVars, distVars, districtVars, weighVars, curveVars, recVars, loadVars, quizVars>>

SpecPref == InitPref /\ [][NextPref]_vars

\* ---- claims about get_preference_recommendations
RECURSIVE Dot(_, _, _)
\* the dot product of the first n entries of w and t
Dot(w, t, n) == IF n = 0 THEN 0 ELSE w[n] * t[n] + Dot(w, t, n - 1)

ResultNames == {pref_result[i][1] : i \in DOMAIN pref_result}

\* C6: get_preference_recommendations returns min(K, number of breeds)
\* entries, each score is the dot product of the weights with that breed's
\* twelve traits, scores are non-increasing, and every breed left out scores
\* <= the last returned score.
C6_TopKByDotProduct ==
    pref_pc = "returned" =>
        /\ Len(pref_result) = (IF pref_limit < Len(pref_breeds)
                               THEN pref_limit ELSE Len(pref_breeds))
        /\ \A i \in DOMAIN pref_result :
              \E j \in DOMAIN pref_breeds :
                 /\ pref_breeds[j].breed_name = pref_result[i][1]
                 /\ pref_result[i][2] = Dot(pref_weights, pref_breeds[j].traits, NumTraits)
        /\ \A i \in 2..Len(pref_result) : pref_result[i][2] <= pref_result[i - 1][2]
        /\ \A j \in DOMAIN pref_breeds :
              (pref_result # <<>> /\ pref_breeds[j].breed_name \notin ResultNames)
              => Dot(pref_weights, pref_breeds[j].traits, NumTraits)
                    <= pref_result[Len(pref_result)][2]

\* C6 witness: three breeds, K = 2, a negative weight, the two returned scores
\* differ and the breed left out scores strictly less than both.
C6_Witness ==
    /\ pref_pc = "returned"
    /\ Len(pref_breeds) = 3
    /\ pref_limit = 2
    /\ pref_weights[4] < 0
    /\ Len(pref_result) = 2
    /\ pref_result[1][2] > pref_result[2][2]
    /\ \E j \in DOMAIN pref_breeds :
          /\ pref_breeds[j].breed_name \notin ResultNames
          /\ Dot(pref_weights, pref_breeds[j].traits, NumTraits) < pref_result[2][2]

(***************************************************************************)
(* user_preference.py: normalize_preference_recommendations                *)
(***************************************************************************)
RECURSIVE MinScore(_)
\* lines 88-92 on a non-empty list: the least raw score
MinScore(scores) ==
    IF Len(scores) = 1 THEN scores[1][2]
    ELSE LET m == MinScore(Tail(scores))
         IN  IF scores[1][2] < m THEN scores[1][2] ELSE m

RECURSIVE MaxScore(_)
\* lines 89-94 on a non-empty list: the greatest raw score
MaxScore(scores) ==
    IF Len(scores) = 1 THEN scores[1][2]
    ELSE LET m == MaxScore(Tail(scores))
         IN  IF scores[1][2] > m THEN scores[1][2] ELSE m

\* line 95: max_score += (max_score - min_score)
padded_max(scores) == MaxScore(scores) + (MaxScore(scores) - MinScore(scores))

\* line 96 as a padding of equal size on both sides
padded_min_symmetric(scores) == MinScore(scores) - (MaxScore(scores) - MinScore(scores))

\* line 96: min_score = max_score - (max_score - min_score) * 2, where
\* max_score is already the padded maximum
padded_min(scores) == padded_max(scores) - (padded_max(scores) - MinScore(scores)) * 2

\* lines 87-101: [outcome, value]. The loops do not run on an empty list (the
\* infinities of lines 88-89 are then never divided by), and the in-place
\* division of line 99 raises ZeroDivisionError on a zero width.
normalize_preference_recommendations(scores) ==
    IF scores = <<>> THEN [outcome |-> "returned", value |-> <<>>]
    ELSE LET lo == padded_min(scores)
             hi == padded_max(scores)
         IN  IF hi - lo = 0
             THEN [outcome |-> "ZeroDivisionError", value |-> <<>>]
             ELSE [outcome |-> "returned",
                   value |-> [i \in DOMAIN scores |->
                                 <<scores[i][1], Frac(scores[i][2] - lo, hi - lo)>>]]

Normalize ==
    /\ norm_pc = "idle"
    /\ LET r == normalize_preference_recommendations(norm_scores)
       IN  /\ norm_pc' = r.outcome
           /\ norm_result' = r.value
    /\ UNCHANGED norm_scores

RawScores == -1..MaxRaw

NormInit ==
    /\ norm_scores \in
          UNION {{[i \in 1..k |-> <<BreedPool[i], raw[i]>>] : raw \in [1..k -> RawScores]} :
                    k \in 0..MaxNormLen}
    /\ norm_result = <<>>
    /\ norm_pc = "idle"

InitNorm == NormInit /\ CmpIdle /\ RankIdle /\ PrefIdle /\ TreeIdle /\ GraphIdle /\ DistIdle /\ DistrictIdle /\ WeighIdle /\ CurveIdle /\ RecIdle /\ LoadIdle /\ QuizIdle

NextNorm == Normalize /\ UNCHANGED <<cmpVars, rankVars, prefVars, treeVars, graphVars, distVars, districtVars, weighVars, curveVars, recVars, loadVars, quizVars>>

SpecNorm == InitNorm /\ [][NextNorm]_vars

\* ---- claims about normalize_preference_recommendations
ZeroSpread(scores) == \A i, j \in DOMAIN scores : scores[i][2] = scores[j][2]

\* C7: for any non-empty list, normalize_preference_recommendations returns a
\* list of the same length with the same names in the same positions, every
\* output score strictly between 0.0 and 1.0, and raw a > raw b implies
\* normalized a > normalized b.
C7_NormalizedInOpenUnit ==
    (norm_pc # "idle" /\ norm_scores # <<>>) =>
        /\ norm_pc = "returned"
        /\ Len(norm_result) = Len(norm_scores)
        /\ \A i \in DOMAIN norm_result :
              /\ norm_result[i][1] = norm_scores[i][1]
              /\ 0 < norm_result[i][2].num
              /\ norm_result[i][2].num < norm_result[i][2].den
        /\ \A i, j \in DOMAIN norm_result :
              norm_scores[i][2] > norm_scores[j][2]
              => FracGT(norm_result[i][2], norm_result[j][2])

\* C8: on a single-element list, or a list whose raw scores are all equal,
\* the call does not divide by zero: a normalized list is returned.
C8_NoDivisionByZero ==
    (norm_pc # "idle" /\ norm_scores # <<>> /\ ZeroSpread(norm_scores)) =>
        /\ norm_pc = "returned"
        /\ Len(norm_result) = Len(norm_scores)

\* C9 (as claimed): the padded lower bound lies as far below the observed
\* minimum as the padded upper bound lies above the observed maximum, so the
\* normalized minimum and the normalized maximum sum to 1.
C9_SymmetricPadding ==
    (norm_pc = "returned" /\ norm_scores # <<>>) =>
        /\ MinScore(norm_scores) - padded_min(norm_scores)
              = padded_max(norm_scores) - MaxScore(norm_scores)
        /\ \A i, j \in DOMAIN norm_result :
              (/\ norm_scores[i][2] = MinScore(norm_scores)
               /\ norm_scores[j][2] = MaxScore(norm_scores))
              => norm_result[i][2].num + norm_result[j][2].num = norm_result[i][2].den

\* C9 (amended): the padding is one-sided heavy: the padded lower bound lies
\* twice the observed spread below the minimum, the padded upper bound one
\* spread above the maximum, so in a returned list the minimum normalizes to
\* 1/2 and the maximum to 3/4.
C9_LopsidedPadding ==
    (norm_pc = "returned" /\ norm_scores # <<>>) =>
        LET spread == MaxScore(norm_scores) - MinScore(norm_scores) IN
        /\ \A i \in DOMAIN norm_result :
              /\ norm_scores[i][2] = MinScore(norm_scores)
                    => 2 * norm_result[i][2].num = norm_result[i][2].den
              /\ norm_scores[i][2] = MaxScore(norm_scores)
                    => 4 * norm_result[i][2].num = 3 * norm_result[i][2].den
              /\ norm_result[i][2].den = 4 * spread
              /\ norm_result[i][2].num = norm_scores[i][2] - (MinScore(norm_scores) - 2 * spread)

\* C9 witness: a list of three different raw scores was normalized.
C9_Witness ==
    /\ norm_pc = "returned"
    /\ Len(norm_scores) = 3
    /\ \A i, j \in DOMAIN norm_scores : i # j => norm_scores[i][2] # norm_scores[j][2]
    /\ \E i \in DOMAIN norm_result : 2 * norm_result[i][2].num = norm_result[i][2].den
    /\ \E i \in DOMAIN norm_result : 4 * norm_result[i][2].num = 3 * norm_result[i][2].den

(***************************************************************************)
(* breeds_decision_tree.py: Tree                                           *)
(***************************************************************************)
Tree(root, subtrees) == [root |-> root, subtrees |-> subtrees]

\* contain_num answering False for every item
contain_num_Never(t, item) == 0

\* contain_num: the position of the first subtree whose root is item; 0 is
\* the False of line 37
contain_num(t, item) ==
    IF \E i \in DOMAIN t.subtrees : t.subtrees[i].root = item
    THEN CHOOSE i \in DOMAIN t.subtrees :
            /\ t.subtrees[i].root = item
            /\ \A j \in 1..(i - 1) : t.subtrees[j].root # item
    ELSE 0

RECURSIVE insert_sequence(_, _)
\* lines 20-30: the tree after self.insert_sequence(items)
insert_sequence(t, items) ==
    IF items = <<>> THEN t
    ELSE LET exist == contain_num(t, items[1])
         IN  IF exist # 0
             THEN [t EXCEPT !.subtrees[exist] = insert_sequence(@, Tail(items))]
             ELSE [t EXCEPT !.subtrees =
                      Append(@, insert_sequence(Tree(items[1], <<>>), Tail(items)))]

SubtreeRoots(t) == [i \in DOMAIN t.subtrees |-> t.subtrees[i].root]

RECURSIVE decision_tree_method_SkipMiss(_, _)
\* the walk with the else branch of lines 48-49 left out
decision_tree_method_SkipMiss(current_tree, choices) ==
    IF choices = <<>> THEN SubtreeRoots(current_tree)
    ELSE IF choices[1] \in Range(SubtreeRoots(current_tree))
         THEN decision_tree_method_SkipMiss(
                  current_tree.subtrees[contain_num(current_tree, choices[1])],
                  Tail(choices))
         ELSE decision_tree_method_SkipMiss(current_tree, Tail(choices))

RECURSIVE decision_tree_method(_, _)
\* lines 43-50: the walk from current_tree along the remaining choices
decision_tree_method(current_tree, choices) ==
    IF choices = <<>> THEN SubtreeRoots(current_tree)
    ELSE IF choices[1] \in Range(SubtreeRoots(current_tree))
         THEN decision_tree_method(
                  current_tree.subtrees[
                      CHOOSE i \in DOMAIN current_tree.subtrees :
                         /\ current_tree.subtrees[i].root = choices[1]
                         /\ \A j \in 1..(i - 1) : current_tree.subtrees[j].root # choices[1]],
                  Tail(choices))
         ELSE <<>>

TreeValues == {"yes", "Beagle", "Pug"}

TreeSeqs == SeqsUpTo(TreeValues, MaxSeqLen)

\* one call of insert_sequence while the tree is being built
Tree_Insert ==
    /\ tree_pc = "built"
    /\ \E items \in TreeSeqs :
          /\ items \in tree_inserted \/ Cardinality(tree_inserted) < MaxInserts
          /\ tree' = insert_sequence(tree, items)
          /\ tree_inserted' = tree_inserted \cup {items}
    /\ UNCHANGED <<tree_choices, tree_result, tree_pc>>

\* run_dog_recommender line 108: the lookup on the built tree
Tree_Lookup ==
    /\ tree_pc = "built"
    /\ \E choices \in TreeSeqs :
          /\ tree_choices' = choices
          /\ tree_result' = decision_tree_method(tree, choices)
    /\ tree_pc' = "looked_up"
    /\ UNCHANGED <<tree, tree_inserted>>

\* build_decision_tree line 59: Tree('', [])
TreeInit ==
    /\ tree = Tree("", <<>>)
    /\ tree_inserted = {}
    /\ tree_choices = <<>>
    /\ tree_result = <<>>
    /\ tree_pc = "built"

InitTree == TreeInit /\ CmpIdle /\ RankIdle /\ PrefIdle /\ NormIdle /\ GraphIdle /\ DistIdle /\ DistrictIdle /\ WeighIdle /\ CurveIdle /\ RecIdle /\ LoadIdle /\ QuizIdle

NextTree ==
    \/ Tree_Insert /\ UNCHANGED <<cmpVars, rankVars, prefVars, normVars, graphVars, distVars, districtVars, weighVars, curveVars, recVars, loadVars, quizVars>>
    \/ Tree_Lookup /\ UNCHANGED <<cmpVars, rankVars, prefVars, normVars, graphVars, distVars, districtVars, weighVars, curveVars, recVars, loadVars, quizVars>>

SpecTree == InitTree /\ [][NextTree]_vars

\* ---- claims about Tree
\* s begins with p
BeginsWith(s, p) == Len(p) <= Len(s) /\ SubSeq(s, 1, Len(p)) = p

\* the values v for which some inserted sequence begins with choices, v
Continuations(inserted, choices) ==
    {v \in TreeValues : \E s \in inserted : BeginsWith(s, Append(choices, v))}

\* C10: after any sequence of insert_sequence calls, decision_tree_method
\* returns exactly the values v for which some inserted sequence begins with
\* choices followed by v, which is the empty list when no inserted sequence
\* begins with choices, and the call leaves the tree as it was.
C10_LookupExact ==
    [][tree_pc' = "looked_up" =>
          /\ tree' = tree
          /\ Range(tree_result') = Continuations(tree_inserted', tree_choices')
          /\ Len(tree_result') = Cardinality(Range(tree_result'))
          /\ ((\A s \in tree_inserted' : ~BeginsWith(s, tree_choices'))
                 => tree_result' = <<>>)]_vars

\* C10 witness: two sequences sharing the path <<yes>> were inserted and the
\* lookup of <<yes>> returned both labels.
C10_Witness ==
    /\ tree_pc = "looked_up"
    /\ tree_inserted = {<<"yes", "Beagle">>, <<"yes", "Pug">>}
    /\ tree_choices = <<"yes">>
    /\ Range(tree_result) = {"Beagle", "Pug"}

RECURSIVE DistinctChildren(_)
\* no two subtrees of any node of t have the same root
DistinctChildren(t) ==
    /\ \A i, j \in DOMAIN t.subtrees :
          i # j => t.subtrees[i].root # t.subtrees[j].root
    /\ \A i \in DOMAIN t.subtrees : DistinctChildren(t.subtrees[i])

\* C11: in every tree built from the empty root by insert_sequence calls, no
\* two children of the same node share a root value, and a call that inserts
\* the empty sequence or a sequence inserted before leaves the tree unchanged.
C11_DistinctChildren ==
    [][/\ DistinctChildren(tree')
       /\ (\/ tree_inserted' = tree_inserted
           \/ tree_inserted' = tree_inserted \cup {<<>>}) => tree' = tree]_vars

\* C11 witness: two sequences sharing the first value were inserted, and the
\* root has one child for that value holding both continuations.
C11_Witness ==
    /\ tree_inserted = {<<"yes", "Beagle">>, <<"yes", "Pug">>}
    /\ Len(tree.subtrees) = 1
    /\ Len(tree.subtrees[1].subtrees) = 2

(***************************************************************************)
(* graphs.py: Graph and WeightedGraph.  A graph is its _vertices dict: the *)
(* keys are graph_vertices, and the neighbours attribute of the vertex of  *)
(* each key is graph_neighbours (a set, _Vertex) or wgraph_neighbours (a   *)
(* dict neighbour -> weight, _WeightedVertex).                             *)
(***************************************************************************)
\* Graph.add_vertex with the test of line 54 left out: a fresh _Vertex always
add_vertex_Fresh(N, item) ==
    [x \in DOMAIN N \cup {item} |-> IF x = item THEN {} ELSE N[x]]

\* lines 54-55: the neighbour sets after self.add_vertex(item)
add_vertex(N, item) ==
    IF item \notin DOMAIN N
    THEN [x \in DOMAIN N \cup {item} |-> IF x = item THEN {} ELSE N[x]]
    ELSE N

\* Graph.add_edge with line 77 left out: only v1 learns of v2
add_edge_OneWay(N, item1, item2) ==
    IF item1 \in DOMAIN N /\ item2 \in DOMAIN N
    THEN [outcome |-> "returned",
          neighbours |-> [x \in DOMAIN N |->
                             IF x = item1 THEN N[x] \cup {item2} ELSE N[x]]]
    ELSE [outcome |-> "ValueError", neighbours |-> N]

\* Graph.add_edge creating the vertices it does not find
add_edge_SilentInsert(N, item1, item2) ==
    [outcome |-> "returned",
     neighbours |-> [x \in DOMAIN N \cup {item1, item2} |->
                        (IF x \in DOMAIN N THEN N[x] ELSE {})
                           \cup (IF x = item1 THEN {item2} ELSE {})
                           \cup (IF x = item2 THEN {item1} ELSE {})]]

\* lines 73-79: how self.add_edge(item1, item2) ends, and the neighbour sets
\* after it
add_edge(N, item1, item2) ==
    IF item1 \in DOMAIN N /\ item2 \in DOMAIN N
    THEN [outcome |-> "returned",
          neighbours |-> [x \in DOMAIN N |->
                             (N[x] \cup (IF x = item1 THEN {item2} ELSE {}))
                                   \cup (IF x = item2 THEN {item1} ELSE {})]]
    ELSE [outcome |-> "ValueError", neighbours |-> N]

\* lines 92-96: adjacent(item1, item2); N gives each vertex the elements of
\* its neighbours
adjacent(N, item1, item2) ==
    IF item1 \in DOMAIN N /\ item2 \in DOMAIN N
    THEN \E v2 \in N[item1] : v2 = item2
    ELSE FALSE

\* lines 173-174: the neighbour dicts after WeightedGraph.add_vertex(item)
WeightedGraph_add_vertex(W, item) ==
    IF item \notin DOMAIN W
    THEN [x \in DOMAIN W \cup {item} |-> IF x = item THEN EmptyMap ELSE W[x]]
    ELSE W

\* v.neighbours[u] = weight
SetItem(d, u, weight) ==
    [y \in DOMAIN d \cup {u} |-> IF y = u THEN weight ELSE d[y]]

\* WeightedGraph.add_edge keeping the weight of an edge that exists
WeightedGraph_add_edge_KeepFirst(W, item1, item2, weight) ==
    IF item1 \in DOMAIN W /\ item2 \in DOMAIN W
    THEN [outcome |-> "returned",
          neighbours |-> [x \in DOMAIN W |->
              IF x = item1 /\ item2 \notin DOMAIN W[x] THEN SetItem(W[x], item2, weight)
              ELSE IF x = item2 /\ item1 \notin DOMAIN W[x] THEN SetItem(W[x], item1, weight)
              ELSE W[x]]]
    ELSE [outcome |-> "ValueError", neighbours |-> W]

\* lines 182-191: how WeightedGraph.add_edge(item1, item2, weight) ends, and
\* the neighbour dicts after it
WeightedGraph_add_edge(W, item1, item2, weight) ==
    IF item1 \in DOMAIN W /\ item2 \in DOMAIN W
    THEN [outcome |-> "returned",
          neighbours |-> [x \in DOMAIN W |->
              IF x = item2 THEN SetItem(IF x = item1 THEN SetItem(W[x], item2, weight)
                                        ELSE W[x], item1, weight)
              ELSE IF x = item1 THEN SetItem(W[x], item2, weight)
              ELSE W[x]]]
    ELSE [outcome |-> "ValueError", neighbours |-> W]

\* lines 208-210: v1.neighbours.get(v2, 0), for two vertices of the graph
get_weight(W, item1, item2) ==
    IF item2 \in DOMAIN W[item1] THEN W[item1][item2] ELSE 0

\* lines 225-229: how average_weight(item) ends and what it returns; the sum
\* over the length is kept as a fraction, and a length of 0 is the
\* ZeroDivisionError of the division of line 227
average_weight(W, item) ==
    IF item \in DOMAIN W
    THEN IF Cardinality(DOMAIN W[item]) = 0
         THEN [outcome |-> "ZeroDivisionError", value |-> Frac(0, 1)]
         ELSE [outcome |-> "returned",
               value |-> Frac(SumOver(W[item], DOMAIN W[item]),
                              Cardinality(DOMAIN W[item]))]
    ELSE [outcome |-> "ValueError", value |-> Frac(0, 1)]

GraphItems == 1..MaxItems

\* line 176: weight = 1 when the caller passes none
DefaultWeight == 1

ExplicitWeights == 2..MaxWeight

NoValue == Frac(0, 1)

\* the entry of edge_history for a call of add_edge
EdgeCall(given, weight) == [given |-> given, weight |-> weight]

\* g.add_vertex(item) on a Graph
Graph_AddVertex(item) ==
    /\ graph_class = "Graph"
    /\ graph_neighbours' = add_vertex(graph_neighbours, item)
    /\ graph_vertices' = DOMAIN graph_neighbours'
    /\ graph_outcome' = [op |-> "add_vertex", outcome |-> "returned", value |-> NoValue]
    /\ UNCHANGED <<graph_class, wgraph_neighbours, edge_history>>

\* g.add_edge(item1, item2) on a Graph, item1 = item2 included
Graph_AddEdge(item1, item2) ==
    /\ graph_class = "Graph"
    /\ LET r == add_edge(graph_neighbours, item1, item2) IN
          /\ graph_neighbours' = r.neighbours
          /\ graph_vertices' = DOMAIN r.neighbours
          /\ graph_outcome' = [op |-> "add_edge", outcome |-> r.outcome, value |-> NoValue]
    /\ edge_history' = IF item1 \in graph_vertices /\ item2 \in graph_vertices
                       THEN SetItem(edge_history, {item1, item2}, EdgeCall(FALSE, 0))
                       ELSE edge_history
    /\ UNCHANGED <<graph_class, wgraph_neighbours>>

\* wg.add_vertex(item) on a WeightedGraph
WeightedGraph_AddVertex(item) ==
    /\ graph_class = "WeightedGraph"
    /\ wgraph_neighbours' = WeightedGraph_add_vertex(wgraph_neighbours, item)
    /\ graph_vertices' = DOMAIN wgraph_neighbours'
    /\ graph_outcome' = [op |-> "add_vertex", outcome |-> "returned", value |-> NoValue]
    /\ UNCHANGED <<graph_class, graph_neighbours, edge_history>>

\* wg.add_edge(item1, item2) when given is FALSE, wg.add_edge(item1, item2,
\* weight) when it is TRUE; the callers keep the precondition item1 != item2
WeightedGraph_AddEdge(item1, item2, given, weight) ==
    /\ graph_class = "WeightedGraph"
    /\ item1 # item2
    /\ LET r == WeightedGraph_add_edge(wgraph_neighbours, item1, item2,
                                       IF given THEN weight ELSE DefaultWeight) IN
          /\ wgraph_neighbours' = r.neighbours
          /\ graph_vertices' = DOMAIN r.neighbours
          /\ graph_outcome' = [op |-> "add_edge", outcome |-> r.outcome, value |-> NoValue]
    /\ edge_history' = IF item1 \in graph_vertices /\ item2 \in graph_vertices
                       THEN SetItem(edge_history, {item1, item2},
                                    EdgeCall(given, IF given THEN weight ELSE 0))
                       ELSE edge_history
    /\ UNCHANGED <<graph_class, graph_neighbours>>

\* wg.average_weight(item)
WeightedGraph_AverageWeight(item) ==
    /\ graph_class = "WeightedGraph"
    /\ LET r == average_weight(wgraph_neighbours, item) IN
          graph_outcome' = [op |-> "average_weight", outcome |-> r.outcome, value |-> r.value]
    /\ UNCHANGED <<graph_class, graph_vertices, graph_neighbours, wgraph_neighbours,
                   edge_history>>

\* lines 44-46 and 162-164: an empty Graph or an empty WeightedGraph
GraphInit ==
    /\ graph_class \in {"Graph", "WeightedGraph"}
    /\ wgraph_neighbours = EmptyMap
    /\ graph_outcome = [op |-> "none", outcome |-> "none", value |-> NoValue]
    /\ edge_history = EmptyMap

InitGraph == GraphInit /\ CmpIdle /\ RankIdle /\ PrefIdle /\ NormIdle /\ TreeIdle /\ DistIdle /\ DistrictIdle /\ WeighIdle /\ CurveIdle /\ RecIdle /\ LoadIdle /\ QuizIdle

RankRest == <<input_user, limit, dog_breed_score, breed_order, top_matches, rank_pc>>

NextGraph ==
    \/ (\E item \in GraphItems : Graph_AddVertex(item))
          /\ UNCHANGED <<cmpVars, RankRest, prefVars, normVars, treeVars, distVars, districtVars, weighVars, curveVars, recVars, loadVars, quizVars>>
    \/ (\E item1, item2 \in GraphItems : Graph_AddEdge(item1, item2))
          /\ UNCHANGED <<cmpVars, RankRest, prefVars, normVars, treeVars, distVars, districtVars, weighVars, curveVars, recVars, loadVars, quizVars>>
    \/ (\E item \in GraphItems : WeightedGraph_AddVertex(item))
          /\ UNCHANGED <<cmpVars, RankRest, prefVars, normVars, treeVars, distVars, districtVars, weighVars, curveVars, recVars, loadVars, quizVars>>
    \/ (\E item1, item2 \in GraphItems :
           \/ WeightedGraph_AddEdge(item1, item2, FALSE, 0)
           \/ \E weight \in ExplicitWeights :
                 WeightedGraph_AddEdge(item1, item2, TRUE, weight))
          /\ UNCHANGED <<cmpVars, RankRest, prefVars, normVars, treeVars, distVars, districtVars, weighVars, curveVars, recVars, loadVars, quizVars>>
    \/ (\E item \in GraphItems : WeightedGraph_AverageWeight(item))
          /\ UNCHANGED <<cmpVars, RankRest, prefVars, normVars, treeVars, distVars, districtVars, weighVars, curveVars, recVars, loadVars, quizVars>>

SpecGraph == InitGraph /\ [][NextGraph]_vars

\* ---- claims about Graph and WeightedGraph
\* line 94 iterates v1.neighbours: the set of a _Vertex, the keys of the dict
\* of a _WeightedVertex
NeighbourElements ==
    IF graph_class = "WeightedGraph"
    THEN [x \in DOMAIN wgraph_neighbours |-> DOMAIN wgraph_neighbours[x]]
    ELSE graph_neighbours

\* the step is a call add_edge(a, b), with or without a weight
AddEdgeStep(a, b) ==
    \/ Graph_AddEdge(a, b)
    \/ WeightedGraph_AddEdge(a, b, FALSE, 0)
    \/ \E weight \in ExplicitWeights : WeightedGraph_AddEdge(a, b, TRUE, weight)

\* C12: for all items a # b present as vertices, adjacent(a, b) equals
\* adjacent(b, a); both are false as long as no add_edge between a and b was
\* made on the two vertices, and both are true in every state after one.
C12_AdjacentSymmetric ==
    \A a, b \in graph_vertices :
        a # b =>
           /\ adjacent(NeighbourElements, a, b) = adjacent(NeighbourElements, b, a)
           /\ adjacent(NeighbourElements, a, b) <=> ({a, b} \in DOMAIN edge_history)

\* C12 witness: a Graph of three vertices in which add_edge joined 1 and 2 only.
C12_Witness ==
    /\ graph_class = "Graph"
    /\ graph_vertices = {1, 2, 3}
    /\ DOMAIN edge_history = {{1, 2}}
    /\ adjacent(graph_neighbours, 1, 2) /\ adjacent(graph_neighbours, 2, 1)
    /\ ~adjacent(graph_neighbours, 1, 3) /\ ~adjacent(graph_neighbours, 3, 2)

\* C13: add_edge(a, b) with a or b not a vertex raises ValueError, adds no
\* vertex, and leaves the vertex set and every neighbour set as they were.
C13_UnknownEndpointRejected ==
    [][\A a, b \in GraphItems :
          ((a \notin graph_vertices \/ b \notin graph_vertices) /\ AddEdgeStep(a, b))
             => /\ graph_outcome'.outcome = "ValueError"
                /\ graph_vertices' = graph_vertices
                /\ graph_neighbours' = graph_neighbours
                /\ wgraph_neighbours' = wgraph_neighbours]_vars

\* C13 witness: add_edge raised on a graph whose only vertices, 1 and 2, are
\* joined by an edge: the call named an item that was never added.
C13_Witness ==
    /\ graph_outcome.op = "add_edge"
    /\ graph_outcome.outcome = "ValueError"
    /\ graph_vertices = {1, 2}
    /\ adjacent(NeighbourElements, 1, 2)

\* C14: in every state reached by add_vertex and add_edge calls, the call
\* add_edge(a, a) on a vertex a included, no vertex is in its own neighbour
\* set.
C14_NoSelfLoop ==
    \A v \in graph_vertices : v \notin NeighbourElements[v]

\* C15: add_vertex(item) for an item already in the graph raises nothing,
\* and leaves the vertex set, every neighbour set and every edge weight as
\* they were.
C15_AddVertexIdempotent ==
    [][\A item \in graph_vertices :
          (Graph_AddVertex(item) \/ WeightedGraph_AddVertex(item))
             => /\ graph_outcome'.outcome = "returned"
                /\ graph_vertices' = graph_vertices
                /\ graph_neighbours' = graph_neighbours
                /\ wgraph_neighbours' = wgraph_neighbours]_vars

\* C15 witness: the last call was an add_vertex, and both vertices of the
\* graph have an edge, so the item of that call was a vertex already.
C15_Witness ==
    /\ graph_outcome.op = "add_vertex"
    /\ graph_vertices = {1, 2}
    /\ adjacent(NeighbourElements, 1, 2)

\* C16: in a WeightedGraph, for all vertices a and b, get_weight(a, b)
\* equals get_weight(b, a); it is 0 if no edge between them was added, and
\* otherwise the weight passed to the latest add_edge between them, 1 when
\* that call passed none.
C16_WeightOfLatestEdge ==
    graph_class = "WeightedGraph" =>
       \A a, b \in graph_vertices :
          /\ get_weight(wgraph_neighbours, a, b) = get_weight(wgraph_neighbours, b, a)
          /\ get_weight(wgraph_neighbours, a, b) =
                IF {a, b} \notin DOMAIN edge_history THEN 0
                ELSE IF edge_history[{a, b}].given THEN edge_history[{a, b}].weight
                ELSE 1

\* C16 witness: one edge added without a weight, one with weight 2, one pair
\* never joined.
C16_Witness ==
    /\ graph_class = "WeightedGraph"
    /\ graph_vertices = {1, 2, 3}
    /\ get_weight(wgraph_neighbours, 1, 2) = 1
    /\ get_weight(wgraph_neighbours, 3, 1) = 2
    /\ get_weight(wgraph_neighbours, 2, 3) = 0
    /\ edge_history[{1, 2}] = EdgeCall(FALSE, 0)
    /\ edge_history[{1, 3}] = EdgeCall(TRUE, 2)

\* C17: average_weight(item) raises ValueError for an absent item and for a
\* vertex without neighbours alike, returns the sum of the edge weights over
\* the neighbour count for a vertex with neighbours, and leaves the graph as
\* it was.
C17_AverageWeightRejectsIsolated ==
    [][\A item \in GraphItems :
          WeightedGraph_AverageWeight(item) =>
             /\ graph_vertices' = graph_vertices
             /\ wgraph_neighbours' = wgraph_neighbours
             /\ item \notin graph_vertices => graph_outcome'.outcome = "ValueError"
             /\ (item \in graph_vertices /\ DOMAIN wgraph_neighbours[item] = {})
                   => graph_outcome'.outcome = "ValueError"
             /\ (item \in graph_vertices /\ DOMAIN wgraph_neighbours[item] # {})
                   => /\ graph_outcome'.outcome = "returned"
                      /\ graph_outcome'.value =
                            Frac(SumOver(wgraph_neighbours[item], DOMAIN wgraph_neighbours[item]),
                                 Cardinality(DOMAIN wgraph_neighbours[item]))]_vars

(***************************************************************************)
(* data_loader.py: normalize_district_distances, apply_district_distances  *)
(* A table is a function origin id -> (destination id -> fraction).        *)
(***************************************************************************)
\* the (origin, destination) pairs the two nested loops visit
TablePairs(table) ==
    {p \in (DOMAIN table) \X DistrictIds : p[2] \in DOMAIN table[p[1]]}

\* the raw distances of a table, whole kilometres (den = 1)
TableDistances(table) == {table[p[1]][p[2]].num : p \in TablePairs(table)}

\* lines 123, 129: math.inf lowered by min() over every pair; read only when
\* the table has a pair
min_distance(table) ==
    CHOOSE x \in TableDistances(table) : \A y \in TableDistances(table) : x <= y

\* lines 124, 130: 0 raised by max() over every pair
max_distance(table) ==
    CHOOSE x \in TableDistances(table) \cup {0} :
        \A y \in TableDistances(table) \cup {0} : y <= x

\* lines 137-139 with the flip of line 139 left out
closeness_NoFlip(distance, min, difference) ==
    Frac(distance - min, difference)

\* lines 137-139: 1 - (distance - min) / difference, for difference # 0
closeness(distance, min, difference) ==
    Frac(difference - (distance - min), difference)

\* the first pair of a non-empty set of pairs in iteration order (the order
\* of the rows and mappings of the file, taken as ascending ids)
FirstPair(todo) ==
    CHOOSE p \in todo : \A q \in todo :
        p[1] < q[1] \/ (p[1] = q[1] /\ p[2] <= q[2])

RECURSIVE NormalizeLoop(_, _, _, _)
\* lines 134-141: the second pair of loops over the pairs still to visit;
\* each entry is assigned before its assertion is tested
NormalizeLoop(table, todo, min, difference) ==
    IF todo = {} THEN [outcome |-> "normalized", table |-> table]
    ELSE LET p == FirstPair(todo)
             distance == closeness(table[p[1]][p[2]].num, min, difference)
             assigned == [table EXCEPT ![p[1]][p[2]] = distance]
         IN  IF 0 <= distance.num /\ distance.num <= distance.den
             THEN NormalizeLoop(assigned, todo \ {p}, min, difference)
             ELSE [outcome |-> "AssertionError", table |-> assigned]

\* normalize_district_distances without the test of lines 131-132
normalize_district_distances_NoGuard(table) ==
    IF TablePairs(table) = {} THEN [outcome |-> "normalized", table |-> table]
    ELSE IF max_distance(table) - min_distance(table) = 0
         THEN [outcome |-> "ZeroDivisionError", table |-> table]
         ELSE NormalizeLoop(table, TablePairs(table), min_distance(table),
                            max_distance(table) - min_distance(table))

\* lines 123-141: how the call ends and the table it leaves; the division of
\* line 138 by a difference of 0 raises ZeroDivisionError at the first pair,
\* before any assignment
normalize_district_distances(table) ==
    IF max_distance(table) = 0
    THEN [outcome |-> "ValueError", table |-> table]
    ELSE IF max_distance(table) - min_distance(table) = 0
         THEN [outcome |-> "ZeroDivisionError", table |-> table]
         ELSE NormalizeLoop(table, TablePairs(table), min_distance(table),
                            max_distance(table) - min_distance(table))

\* districts.py lines 44-46, for every destination of one origin: the
\* origin's __district_distances after set_distance(destination, value)
set_distances(own, row) ==
    [d \in DOMAIN own \cup DOMAIN row |-> IF d \in DOMAIN row THEN row[d] ELSE own[d]]

\* apply_district_distances handing over the table as it was loaded
apply_district_distances_Unnormalized(dd, table) ==
    [o \in DOMAIN dd |->
        IF o \in DOMAIN dist_input THEN set_distances(dd[o], dist_input[o]) ELSE dd[o]]

\* lines 148-151: every district's __district_distances after the call
apply_district_distances(dd, table) ==
    [o \in DOMAIN dd |->
        IF o \in DOMAIN table THEN set_distances(dd[o], table[o]) ELSE dd[o]]

\* distances of the feed in km; -1 stands for the negative value
\* dictrict_closeness.py writes when a lookup failed
DistanceSamples == {-1, 0, 10, 20, 30}

\* the (origin, destination) pairs a file can hold: get_raw_district_distances
\* skips a destination equal to the origin
FilePairs == {p \in DistrictIds \X DistrictIds : p[1] # p[2]}

\* get_raw_district_distances: the table with a row for every origin of O
\* and the distance km[p] for every pair p of P
RawTable(O, P, km) ==
    [o \in O |-> [d \in {e \in DistrictIds : <<o, e>> \in P} |-> Frac(km[<<o, d>>], 1)]]

\* main.py line 249
Dist_Normalize ==
    /\ dist_pc = "loaded"
    /\ LET r == normalize_district_distances(raw_district_distances) IN
          /\ raw_district_distances' = r.table
          /\ dist_pc' = r.outcome
    /\ UNCHANGED <<dist_input, district_distances>>

\* main.py line 250, reached when line 249 raised nothing
Dist_Apply ==
    /\ dist_pc = "normalized"
    /\ district_distances' =
          apply_district_distances(district_distances, raw_district_distances)
    /\ dist_pc' = "applied"
    /\ UNCHANGED <<dist_input, raw_district_distances>>

\* main.py lines 247-248: districts without cached distances, and the table
\* read from the file
DistInit ==
    /\ \E P \in SUBSET FilePairs :
          \E O \in SUBSET DistrictIds :
             \E km \in [P -> DistanceSamples] :
                /\ {p[1] : p \in P} \subseteq O
                /\ raw_district_distances = RawTable(O, P, km)
    /\ dist_input = raw_district_distances
    /\ dist_pc = "loaded"
    /\ district_distances = [d \in DistrictIds |-> EmptyMap]
    /\ cmp_self = User(0, 0, "F", 1)
    /\ cmp_other = User(0, 0, "F", 1)
    /\ cmp_result = NoResult

InitDist == DistInit /\ RankIdle /\ PrefIdle /\ NormIdle /\ TreeIdle /\ GraphIdle /\ DistrictIdle /\ WeighIdle /\ CurveIdle /\ RecIdle /\ LoadIdle /\ QuizIdle

CmpRest == <<cmp_self, cmp_other, cmp_result>>

NextDist ==
    \/ Dist_Normalize /\ UNCHANGED <<CmpRest, rankVars, prefVars, normVars, treeVars, graphVars, districtVars, weighVars, curveVars, recVars, loadVars, quizVars>>
    \/ Dist_Apply /\ UNCHANGED <<CmpRest, rankVars, prefVars, normVars, treeVars, graphVars, districtVars, weighVars, curveVars, recVars, loadVars, quizVars>>

SpecDist == InitDist /\ [][NextDist]_vars

\* ---- claims about the district distances
\* the least and the greatest raw distance of the table passed in
Smallest(S) == CHOOSE x \in S : \A y \in S : x <= y

Largest(S) == CHOOSE x \in S : \A y \in S : y <= x

InputPairs == TablePairs(dist_input)

InputKm(p) == dist_input[p[1]][p[2]].num

Stored(p) == raw_district_distances[p[1]][p[2]]

\* C18: a table whose distances are not all equal and not all <= 0 is
\* normalized, and then every stored value lies in [0, 1], a pair at the
\* global minimum holds exactly 1, a pair at the global maximum exactly 0, a
\* larger raw distance has a strictly smaller value, and each value equals
\* 1 - (d - min)/(max - min).
C18_NormalizedCloseness ==
    LET kms == TableDistances(dist_input) IN
    /\ (dist_pc # "loaded" /\ Cardinality(kms) > 1 /\ Largest(kms) > 0)
          => dist_pc \in {"normalized", "applied"}
    /\ dist_pc \in {"normalized", "applied"} =>
          LET lo == Smallest(kms)
              hi == Largest(kms)
          IN  /\ TablePairs(raw_district_distances) = InputPairs
              /\ \A p \in InputPairs :
                    /\ Stored(p).den > 0
                    /\ 0 <= Stored(p).num /\ Stored(p).num <= Stored(p).den
                    /\ InputKm(p) = lo => Stored(p).num = Stored(p).den
                    /\ InputKm(p) = hi => Stored(p).num = 0
                    /\ Stored(p).num * (hi - lo)
                          = ((hi - lo) - (InputKm(p) - lo)) * Stored(p).den
                    /\ \A q \in InputPairs :
                          InputKm(q) > InputKm(p) => FracGT(Stored(p), Stored(q))

\* C18 witness: a table holding 10, 20 and 30 km was normalized to 1, 1/2, 0.
C18_Witness ==
    /\ dist_pc = "normalized"
    /\ TableDistances(dist_input) = {10, 20, 30}
    /\ \A p \in InputPairs :
          /\ InputKm(p) = 10 => Stored(p).num = Stored(p).den
          /\ InputKm(p) = 20 => 2 * Stored(p).num = Stored(p).den
          /\ InputKm(p) = 30 => Stored(p).num = 0

\* C19: on a table without any pair, or with a maximum distance of 0, the
\* call raises ValueError and every entry is as it was passed in.
C19_DegenerateTableRejected ==
    (dist_pc # "loaded"
        /\ (InputPairs = {} \/ Largest(TableDistances(dist_input)) = 0))
       => /\ dist_pc = "ValueError"
          /\ raw_district_distances = dist_input

\* C19 witness: the call raised ValueError on a table of two pairs, both at
\* distance 0.
C19_Witness ==
    /\ dist_pc = "ValueError"
    /\ Cardinality(InputPairs) = 2
    /\ TableDistances(dist_input) = {0}

\* both districts cache a closeness for the other
Populated(A, B) ==
    /\ get_distance(district_distances, A, B).ok
    /\ get_distance(district_distances, B, A).ok

InUnitFrac(f) == f.den > 0 /\ 0 <= f.num /\ f.num <= f.den

\* C20: after normalize and apply on any raw table, for all distinct
\* districts A and B that cache a distance to each other, A.get_distance(B)
\* equals B.get_distance(A) and both lie in [0, 1].
C20_SymmetricInRange ==
    dist_pc = "applied" =>
       \A A, B \in DistrictIds :
          (A # B /\ Populated(A, B)) =>
             LET ab == get_distance(district_distances, A, B).value
                 ba == get_distance(district_distances, B, A).value
             IN  /\ ab.num * ba.den = ba.num * ab.den
                 /\ InUnitFrac(ab) /\ InUnitFrac(ba)

\* C20 (amended): after normalize and apply, for all distinct districts A and
\* B that cache a distance to each other, both values lie in [0, 1], and
\* A.get_distance(B) equals B.get_distance(A) whenever the raw table gives the
\* same distance from A to B as from B to A.
C20_InRangeSymmetricIfRawIs ==
    dist_pc = "applied" =>
       \A A, B \in DistrictIds :
          (A # B /\ Populated(A, B)) =>
             LET ab == get_distance(district_distances, A, B).value
                 ba == get_distance(district_distances, B, A).value
             IN  /\ InUnitFrac(ab) /\ InUnitFrac(ba)
                 /\ InputKm(<<A, B>>) = InputKm(<<B, A>>)
                       => ab.num * ba.den = ba.num * ab.den

\* C20 witness: the raw table gave 10 km from 1 to 2 and 30 km from 2 to 1;
\* after the apply step district 1 caches 1 for 2 and district 2 caches 0
\* for 1.
C20_Witness ==
    /\ dist_pc = "applied"
    /\ Populated(1, 2)
    /\ InputKm(<<1, 2>>) = 10 /\ InputKm(<<2, 1>>) = 30
    /\ get_distance(district_distances, 1, 2).value = Frac(20, 20)
    /\ get_distance(district_distances, 2, 1).value = Frac(0, 20)

\* C27: on every raw table the call either raises ValueError with the table
\* as it was passed in, or completes with every table value in [0, 1]; it
\* ends in no other error, also not on a non-empty table whose distances are
\* all equal and nonzero.
C27_ValueErrorOrNormalized ==
    dist_pc # "loaded" =>
       \/ dist_pc = "ValueError" /\ raw_district_distances = dist_input
       \/ /\ dist_pc \in {"normalized", "applied"}
          /\ \A p \in TablePairs(raw_district_distances) : InUnitFrac(Stored(p))

(***************************************************************************)
(* districts.py: set_distance and get_distance called one at a time        *)
(***************************************************************************)
\* lines 44-46: self.__district_distances after set_distance(other, distance);
\* own is the empty map when the attribute is None or an empty dict
set_distance(own, other, distance) ==
    [d \in DOMAIN own \cup {other} |-> IF d = other THEN distance ELSE own[d]]

\* origin.set_distance(other, distance), other = self included
District_SetDistance(self, other, distance) ==
    /\ district_sets < MaxSets
    /\ district_distances' =
          [district_distances EXCEPT ![self] = set_distance(@, other, distance)]
    /\ district_history' =
          [p \in DOMAIN district_history \cup {<<self, other>>} |->
              IF p = <<self, other>> THEN distance ELSE district_history[p]]
    /\ district_sets' = district_sets + 1
    /\ UNCHANGED <<district_result, CmpRest>>

\* self.get_distance(other)
District_GetDistance(self, other) ==
    /\ LET r == get_distance(district_distances, self, other) IN
          district_result' = [self |-> self, other |-> other,
                              outcome |-> IF r.ok THEN "returned" ELSE "RuntimeError",
                              value |-> r.value]
    /\ UNCHANGED <<district_history, district_sets, cmpVars>>

\* load_district_data: districts created without cached distances
DistrictInit ==
    /\ district_distances = [d \in DistrictIds |-> EmptyMap]
    /\ cmp_self = User(0, 0, "F", 1)
    /\ cmp_other = User(0, 0, "F", 1)
    /\ cmp_result = NoResult
    /\ DistrictIdle

InitDistrict == DistrictInit /\ RankIdle /\ PrefIdle /\ NormIdle /\ TreeIdle /\ GraphIdle /\ DistIdle /\ WeighIdle /\ CurveIdle /\ RecIdle /\ LoadIdle /\ QuizIdle

NextDistrict ==
    \/ (\E self, other \in DistrictIds : \E distance \in ClosenessSamples :
           District_SetDistance(self, other, distance))
          /\ UNCHANGED <<rankVars, prefVars, normVars, treeVars, graphVars, distVars, weighVars, curveVars, recVars, loadVars, quizVars>>
    \/ (\E self, other \in DistrictIds : District_GetDistance(self, other))
          /\ UNCHANGED <<rankVars, prefVars, normVars, treeVars, graphVars, distVars, weighVars, curveVars, recVars, loadVars, quizVars>>

SpecDistrict == InitDistrict /\ [][NextDistrict]_vars

\* C21: get_distance(other) returns 1.0 when other is the district itself,
\* whatever is cached; for another district it returns the value of the
\* latest set_distance(other, v); and it raises RuntimeError when no value
\* was ever stored for other.
C21_GetDistance ==
    [][\A self, other \in DistrictIds :
          District_GetDistance(self, other) =>
             IF other = self
             THEN /\ district_result'.outcome = "returned"
                  /\ district_result'.value = Scale
             ELSE IF <<self, other>> \in DOMAIN district_history
                  THEN /\ district_result'.outcome = "returned"
                       /\ district_result'.value = district_history[<<self, other>>]
                  ELSE district_result'.outcome = "RuntimeError"]_vars

\* C21 witness: after two set_distance calls, the latest for district 2 on
\* district 1 with the value 0, district 1 returned 0 for district 2.
C21_Witness ==
    /\ district_sets = 2
    /\ DOMAIN district_history = {<<1, 2>>}
    /\ district_history[<<1, 2>>] = 0
    /\ district_result = [self |-> 1, other |-> 2, outcome |-> "returned", value |-> 0]

\* ---- more claims about get_preference_recommendations
\* the weights w with the sign of w[i] reversed
FlipWeight(w, i) == [j \in DOMAIN w |-> IF j = i THEN -w[j] ELSE w[j]]

\* the raw score the list under construction holds for the breed name
ListedScore(name) ==
    breed_scores[CHOOSE k \in DOMAIN breed_scores : breed_scores[k][1] = name][2]

\* C22: with all twelve weights 0 every breed is listed with the raw score
\* 0; and with w_i replaced by -w_i the raw score of a breed is its listed
\* score minus 2 * w_i * (its trait i), for every trait i.
C22_ZeroAndFlippedWeights ==
    \A n \in 1..pref_index :
       LET dog_breed == pref_breeds[n] IN
       /\ (\A i \in 1..NumTraits : pref_weights[i] = 0)
             => ListedScore(dog_breed.breed_name) = 0
       /\ \A i \in 1..NumTraits :
             breed_score(FlipWeight(pref_weights, i), dog_breed)
                = ListedScore(dog_breed.breed_name)
                     - 2 * pref_weights[i] * dog_breed.traits[i]

\* C22 witness: a call with shedding weight 3 returned a breed of shedding
\* level 5 whose score drops by 30 when that weight becomes -3.
C22_Witness ==
    /\ pref_pc = "returned"
    /\ pref_weights[4] = 3
    /\ \E n \in DOMAIN pref_breeds :
          /\ pref_breeds[n].traits[4] = 5
          /\ pref_breeds[n].breed_name \in ResultNames
          /\ breed_score(FlipWeight(pref_weights, 4), pref_breeds[n])
                = ListedScore(pref_breeds[n].breed_name) - 30

(***************************************************************************)
(* user_preference.py: weight_raw_preference_data.  The ten numeric        *)
(* arguments are args.answers in parameter order; the four others are      *)
(* fields of their own.                                                    *)
(***************************************************************************)
\* the tuple of lines 67-80 with the shedding answer left as it is
weight_raw_preference_data_KeepShedding(args) ==
    <<args.answers[1], args.answers[2], args.answers[3], args.answers[4],
      args.answers[5], args.answers[6], args.answers[7], args.answers[8],
      args.answers[9], args.answers[10],
      (IF args.bark_decide = "positive" THEN 1 ELSE -1) * args.bark_important,
      (IF args.stimulation_decide = "positive" THEN 1 ELSE -1) * args.stimulation_important>>

\* lines 67-80: the returned tuple
weight_raw_preference_data(args) ==
    <<args.answers[1],
      args.answers[2],
      args.answers[3],
      args.answers[4] * (-1),
      args.answers[5],
      args.answers[6],
      args.answers[7],
      args.answers[8],
      args.answers[9],
      args.answers[10],
      (IF args.bark_decide = "positive" THEN 1 ELSE -1) * args.bark_important,
      (IF args.stimulation_decide = "positive" THEN 1 ELSE -1) * args.stimulation_important>>

\* main.py line 421 / user_preference.py line 109: the call
Weigh_Call ==
    /\ weigh_pc = "called"
    /\ weigh_result' = weight_raw_preference_data(weigh_args)
    /\ weigh_pc' = "returned"
    /\ UNCHANGED weigh_args

\* the ten numeric answers: all alike, or all different, with any shedding
\* answer in the fourth place
NumericAnswers ==
    {[i \in 1..10 |-> IF i = 4 THEN shedding ELSE IF rest = 0 THEN i ELSE rest] :
        shedding \in 1..MaxAnswer, rest \in 0..MaxAnswer}

\* main.py lines 226-231: the two options of the drop-down questions
Decisions == {"positive", "negative"}

WeighInit ==
    /\ weigh_args \in [answers : NumericAnswers,
                       bark_decide : Decisions, bark_important : 1..MaxAnswer,
                       stimulation_decide : Decisions,
                       stimulation_important : 1..MaxAnswer]
    /\ weigh_result = <<>>
    /\ weigh_pc = "called"

InitWeigh == WeighInit /\ CmpIdle /\ RankIdle /\ PrefIdle /\ NormIdle /\ TreeIdle /\ GraphIdle /\ DistIdle /\ DistrictIdle /\ CurveIdle /\ RecIdle /\ LoadIdle /\ QuizIdle

NextWeigh ==
    Weigh_Call /\ UNCHANGED <<cmpVars, rankVars, prefVars, normVars, treeVars, graphVars, distVars, districtVars, curveVars, recVars, loadVars, quizVars>>

SpecWeigh == InitWeigh /\ [][NextWeigh]_vars

\* C23: the call returns twelve weights in trait order: the barking and the
\* stimulation weight are the importance, negated unless the matching answer
\* is 'positive'; the shedding weight is the negated shedding answer; the
\* other nine are the raw answers.
C23_WeightedAnswers ==
    weigh_pc = "returned" =>
       /\ Len(weigh_result) = 12
       /\ weigh_result[11] = IF weigh_args.bark_decide = "positive"
                             THEN weigh_args.bark_important
                             ELSE -weigh_args.bark_important
       /\ weigh_result[12] = IF weigh_args.stimulation_decide = "positive"
                             THEN weigh_args.stimulation_important
                             ELSE -weigh_args.stimulation_important
       /\ weigh_result[4] = -weigh_args.answers[4]
       /\ \A i \in (1..10) \ {4} : weigh_result[i] = weigh_args.answers[i]

\* C23 witness: ten different answers, barking 'negative' with importance 2,
\* stimulation 'positive' with importance 3.
C23_Witness ==
    /\ weigh_pc = "returned"
    /\ weigh_args.answers = <<1, 2, 3, 2, 5, 6, 7, 8, 9, 10>>
    /\ weigh_args.bark_decide = "negative" /\ weigh_args.bark_important = 2
    /\ weigh_args.stimulation_decide = "positive" /\ weigh_args.stimulation_important = 3
    /\ weigh_result = <<1, 2, 3, -2, 5, 6, 7, 8, 9, 10, -2, 3>>

(***************************************************************************)
(* main.py: curve_data                                                     *)
(***************************************************************************)
\* a score s is the integer s * CurveUnit; 1/1600 holds 1/2, 15/100, and the
\* squares of the twentieths and of the eighths
CurveUnit == 1600

RECURSIVE IntPow(_, _)
IntPow(b, n) == IF n = 0 THEN 1 ELSE b * IntPow(b, n - 1)

\* the exponents num/den the model computes with
Exponents == {Frac(1, 1), Frac(1, 2)}

\* (base / CurveUnit) to the power e equals x / CurveUnit
IsLog(e, x, base) ==
    IntPow(base, e.num) * IntPow(CurveUnit, e.den - e.num) = IntPow(x, e.den)

\* (v / CurveUnit) to the power e equals y / CurveUnit
IsPower(y, v, e) ==
    IntPow(y, e.den) = IntPow(v, e.num) * IntPow(CurveUnit, e.den - e.num)

\* math.log answering 1 where it raises
math_log_Unchecked(x, base) ==
    IF x <= 0 \/ base <= 0 \/ base = CurveUnit
    THEN [outcome |-> "ok", value |-> Frac(1, 1)]
    ELSE [outcome |-> "ok", value |-> CHOOSE e \in Exponents : IsLog(e, x, base)]

\* line 280: math.log(x, base) = log(x) / log(base): the logarithm of a
\* number <= 0 is a ValueError (math domain error), and log(base) = 0 for
\* base 1 makes the division a ZeroDivisionError
math_log(x, base) ==
    IF x <= 0 \/ base <= 0
    THEN [outcome |-> "ValueError", value |-> Frac(0, 1)]
    ELSE IF base = CurveUnit
         THEN [outcome |-> "ZeroDivisionError", value |-> Frac(0, 1)]
         ELSE [outcome |-> "ok", value |-> CHOOSE e \in Exponents : IsLog(e, x, base)]

\* line 281: v ** power
float_pow(v, power) == CHOOSE y \in 0..CurveUnit : IsPower(y, v, power)

\* line 281 with the curved value mirrored: diff - (score + diff) ** power
curved_Mirrored(score, diff, power) == diff - float_pow(score + diff, power)

\* line 281: ((entry[1] + diff) ** power) - diff
curved(score, diff, power) == float_pow(score + diff, power) - diff

\* lines 277-281: how the call ends and the list it returns; data[-1] of an
\* empty list is an IndexError
curve_data(target_diff_percent, data) ==
    IF data = <<>> THEN [outcome |-> "IndexError", value |-> <<>>]
    ELSE LET min_val == data[Len(data)][2]
             max_val == data[1][2]
             diff == CurveUnit - max_val
             power == math_log(CurveUnit - target_diff_percent, min_val)
         IN  IF power.outcome # "ok" THEN [outcome |-> power.outcome, value |-> <<>>]
             ELSE [outcome |-> "returned",
                   value |-> [i \in DOMAIN data |->
                                 <<data[i][1], curved(data[i][2], diff, power.value)>>]]

\* process_answers lines 428-429 with the result kept in curve_result
Curve_Call ==
    /\ curve_pc = "called"
    /\ LET r == curve_data(curve_target, curve_list) IN
          /\ curve_result' = r.value
          /\ curve_pc' = r.outcome
    /\ UNCHANGED <<curve_target, curve_list, curve_input>>

\* lines 428-429: 0.5 and 0.15
CurveTargets == {CurveUnit \div 2, (15 * CurveUnit) \div 100}

\* 0, 1/4, 29/64, 1/2, 11/16, 289/400, 326/400, 17/20, 365/400, 1
ScoreSamples == {0, 400, 725, 800, 1100, 1156, 1304, 1360, 1460, CurveUnit}

\* the logarithm and every power of the call are rational numbers of the model
Representable(target, data) ==
    IF data = <<>> THEN TRUE
    ELSE IF data[Len(data)][2] \in {0, CurveUnit} THEN TRUE
    ELSE \E e \in Exponents :
            /\ IsLog(e, CurveUnit - target, data[Len(data)][2])
            /\ \A i \in DOMAIN data :
                  \E y \in 0..CurveUnit :
                     IsPower(y, data[i][2] + CurveUnit - data[1][2], e)

\* a list of recommendations as the rankers return it, highest score first
CurveInit ==
    /\ curve_target \in CurveTargets
    /\ \E k \in 0..MaxCurveLen :
          \E scores \in [1..k -> ScoreSamples] :
             /\ \A i \in 1..(k - 1) : scores[i] >= scores[i + 1]
             /\ curve_list = [i \in 1..k |-> <<BreedPool[i], scores[i]>>]
    /\ Representable(curve_target, curve_list)
    /\ curve_input = curve_list
    /\ curve_result = <<>>
    /\ curve_pc = "called"

InitCurve == CurveInit /\ CmpIdle /\ RankIdle /\ PrefIdle /\ NormIdle /\ TreeIdle /\ GraphIdle /\ DistIdle /\ DistrictIdle /\ WeighIdle /\ RecIdle /\ LoadIdle /\ QuizIdle

NextCurve ==
    Curve_Call /\ UNCHANGED <<cmpVars, rankVars, prefVars, normVars, treeVars, graphVars, distVars, districtVars, weighVars, recVars, loadVars, quizVars>>

SpecCurve == InitCurve /\ [][NextCurve]_vars

\* the scores of a list, in list order
ScoresOf(data) == [i \in DOMAIN data |-> data[i][2]]

NonIncreasing(scores) ==
    \A i \in DOMAIN scores : \A j \in DOMAIN scores : i < j => scores[i] >= scores[j]

\* every score of the list is strictly between 0 and 1
InOpenUnit(data) == \A i \in DOMAIN data : 0 < data[i][2] /\ data[i][2] < CurveUnit

\* the score of the last entry, which curve_data takes as the minimum
LastScoreDegenerate(data) ==
    IF data = <<>> THEN TRUE ELSE data[Len(data)][2] \in {0, CurveUnit}

\* C24: for a non-empty list sorted by non-increasing score with scores in
\* (0, 1), curve_data returns a list with the same items in the same
\* positions and with scores again non-increasing, and the list passed in
\* is not mutated.
C24_RankOrderPreserved ==
    (/\ curve_pc \notin {"unused", "called"}
     /\ curve_input # <<>>
     /\ InOpenUnit(curve_input)
     /\ NonIncreasing(ScoresOf(curve_input)))
    => /\ curve_pc = "returned"
       /\ Len(curve_result) = Len(curve_input)
       /\ \A i \in DOMAIN curve_input : curve_result[i][1] = curve_input[i][1]
       /\ NonIncreasing(ScoresOf(curve_result))
       /\ curve_list = curve_input

\* a list of three different scores in (0, 1) has been curved into three
\* other scores
C24_Witness ==
    /\ curve_pc = "returned"
    /\ Len(curve_input) = 3
    /\ InOpenUnit(curve_input)
    /\ curve_input[1][2] > curve_input[2][2]
    /\ curve_input[2][2] > curve_input[3][2]
    /\ \A i \in 2..3 : curve_result[i][2] # curve_input[i][2]

\* C25: when the list is empty or the score of its last entry (the minimum)
\* is exactly 0 or exactly 1, curve_data ends with an error (IndexError,
\* ValueError or ZeroDivisionError) and returns no list at all, so no list
\* with a NaN or an infinite score.
C25_DegenerateInputFails ==
    (curve_pc \notin {"unused", "called"} /\ LastScoreDegenerate(curve_input))
    => /\ curve_pc \in {"IndexError", "ValueError", "ZeroDivisionError"}
       /\ curve_result = <<>>

\* C25 witness: a non-empty list whose last score is exactly 1 was passed and
\* the call ended in ZeroDivisionError.
C25_Witness ==
    /\ curve_pc = "ZeroDivisionError"
    /\ curve_input # <<>>
    /\ LastScoreDegenerate(curve_input)

(***************************************************************************)
(* breeds_decision_tree.py: build_decision_tree, get_user_input and        *)
(* run_dog_recommender.  A Python str is the record [str |-> text] and a   *)
(* Python int the record [int |-> number]; as in Python, a str and an int  *)
(* are never equal.                                                        *)
(***************************************************************************)
PyStr(s) == [str |-> s]

PyInt(n) == [int |-> n]

\* lines 89-102
QUESTIONS ==
    << "affectionate_w_family", "good_w_young_children", "good_w_other_dog",
       "shedding_level", "openness_to_strangers", "playfulness",
       "protective_nature", "adaptability", "trainability", "energy",
       "barking", "stimulation_needs" >>

\* the number int() returns for the texts of the model that it accepts:
\* leading zeros and surrounding blanks are dropped
IntLiterals ==
    ("1" :> 1) @@ ("3" :> 3) @@ ("03" :> 3) @@ (" 3" :> 3)
       @@ ("9" :> 9) @@ ("100" :> 100) @@ ("101" :> 101)

\* line 84: int(text) of a str; a text that is no integer literal is a
\* ValueError
py_int(text) ==
    IF text \in DOMAIN IntLiterals
    THEN [outcome |-> "ok", value |-> PyInt(IntLiterals[text])]
    ELSE [outcome |-> "ValueError", value |-> PyInt(0)]

\* lines 70-74: the trait fields row[1:] as read, then the name row[0]
InsertOfRow(row) ==
    [i \in 1..Len(row) |-> IF i < Len(row) THEN PyStr(row[i + 1]) ELSE PyStr(row[1])]

RECURSIVE BuildRows(_, _)
\* lines 65-75: insert_sequence for each row in file order
BuildRows(t, rows) ==
    IF rows = <<>> THEN t
    ELSE BuildRows(insert_sequence(t, InsertOfRow(Head(rows))), Tail(rows))

\* lines 59-76
build_decision_tree(rows) == BuildRows(Tree("", <<>>), rows)

\* lines 81-86: the answers for the texts typed, one per question; the first
\* text int() refuses ends the call
get_user_input(questions, typed) ==
    IF \E i \in DOMAIN questions : py_int(typed[i]).outcome # "ok"
    THEN [outcome |-> "ValueError", answers |-> <<>>]
    ELSE [outcome |-> "ok",
          answers |-> [i \in DOMAIN questions |-> py_int(typed[i]).value]]

\* line 107
Rec_Build ==
    /\ tree_pc = "start"
    /\ tree' = build_decision_tree(rec_file)
    /\ tree_inserted' = {InsertOfRow(rec_file[i]) : i \in DOMAIN rec_file}
    /\ tree_pc' = "tree_built"
    /\ UNCHANGED <<tree_choices, tree_result, rec_file, rec_typed>>

\* line 108, for the twelve texts typed
Rec_Input(typed) ==
    /\ tree_pc = "tree_built"
    /\ LET r == get_user_input(QUESTIONS, typed) IN
          /\ tree_choices' = r.answers
          /\ tree_pc' = IF r.outcome = "ok" THEN "asked" ELSE r.outcome
    /\ rec_typed' = typed
    /\ UNCHANGED <<tree, tree_inserted, tree_result, rec_file>>

\* lines 109-114
Rec_Lookup ==
    /\ tree_pc = "asked"
    /\ tree_result' = decision_tree_method(tree, tree_choices)
    /\ tree_pc' = IF Len(tree_result') = 0 THEN "sorry" ELSE "printed"
    /\ UNCHANGED <<tree, tree_inserted, tree_choices, rec_file, rec_typed>>

\* twelve texts that vary in the first and the last
Texts12(first, last, rest) ==
    [i \in DOMAIN QUESTIONS |->
        IF i = 1 THEN first ELSE IF i = Len(QUESTIONS) THEN last ELSE rest]

\* the scores of data/breed_traits.csv are single digits
CsvDigits == {"1", "3"}

\* what the user may type at a prompt
TypedSamples == {"1", "3", "03", " 3", "x"}

\* a row of the file: the breed name, then its twelve scores
RowPool ==
    {<<name>> \o Texts12(a, b, "3") : name \in {"Beagle", "Pug"}, a \in CsvDigits, b \in CsvDigits}

RecInit ==
    /\ rec_file \in SeqsUpTo(RowPool, MaxRows)
    /\ rec_typed = <<>>
    /\ tree = Tree("", <<>>)
    /\ tree_inserted = {}
    /\ tree_choices = <<>>
    /\ tree_result = <<>>
    /\ tree_pc = "start"

InitRecommender == RecInit /\ CmpIdle /\ RankIdle /\ PrefIdle /\ NormIdle /\ GraphIdle /\ DistIdle /\ DistrictIdle /\ WeighIdle /\ CurveIdle /\ LoadIdle /\ QuizIdle

NextRecommender ==
    \/ Rec_Build /\ UNCHANGED <<cmpVars, rankVars, prefVars, normVars, graphVars, distVars, districtVars, weighVars, curveVars, loadVars, quizVars>>
    \/ \E a \in TypedSamples : \E b \in TypedSamples : \E c \in {"3", "03"} :
          Rec_Input(Texts12(a, b, c)) /\ UNCHANGED <<cmpVars, rankVars, prefVars, normVars, graphVars, distVars, districtVars, weighVars, curveVars, loadVars, quizVars>>
    \/ Rec_Lookup /\ UNCHANGED <<cmpVars, rankVars, prefVars, normVars, graphVars, distVars, districtVars, weighVars, curveVars, loadVars, quizVars>>

SpecRecommender == InitRecommender /\ [][NextRecommender]_vars

\* the twelve answers are numerically equal to the trait values of the row
AnswersMatchRow(answers, row) ==
    \A i \in DOMAIN QUESTIONS : py_int(row[i + 1]).value = answers[i]

\* C28: when the lookup of run_dog_recommender has run on the tree built from
\* the file with the answers converted by int, and the twelve answers are
\* numerically equal to the trait values of some row, the list returned
\* contains that row's breed name.
C28_ExactMatchFound ==
    tree_pc \in {"sorry", "printed"} =>
       \A r \in DOMAIN rec_file :
          AnswersMatchRow(tree_choices, rec_file[r])
             => PyStr(rec_file[r][1]) \in Range(tree_result)

(***************************************************************************)
(* data_loader.py: load_dog_data.  A row is the list of str csv.reader     *)
(* yields: user id, age range, gender, year of birth, district id, breed.  *)
(* A User has no __eq__ and no __hash__, so two User objects are two       *)
(* different vertices: serial numbers them in order of creation.           *)
(***************************************************************************)
UserObject(serial, id, age, gender, district) ==
    [kind |-> "user", serial |-> serial, user_id |-> id, age |-> age,
     gender |-> gender, district |-> district]

\* lines 47, 50: not text.strip()
Blank(text) == text \in {"", " "}

\* line 49: str.upper() of the gender texts of the model
Upper == ("m" :> "M") @@ ("w" :> "W") @@ ("" :> "") @@ (" " :> " ")

\* line 56: str.capitalize() of the breed texts of the model: the first
\* character in upper case, the others in lower case
Capitalize ==
    ("beagle" :> "Beagle") @@ ("BEAGLE" :> "Beagle") @@ ("Pug" :> "Pug")
       @@ ("mischling" :> "Mischling")

\* line 57: 'Mischling' in dog_breed, for the capitalized names of the model
ContainsMischling(dog_breed) == dog_breed = "Mischling"

\* line 59: raw_age_range.split('-') with both parts converted by int
SplitAgeRange == ("11-20" :> <<11, 20>>) @@ ("21-30" :> <<21, 30>>)

\* line 39: district id -> District, for the districts passed in
district_mapping == [d \in DistrictIds |-> d]

\* lines 47-58: the row is skipped by one of the four continue statements
Skipped(row) ==
    \/ Blank(row[2])
    \/ Blank(Upper[row[3]])
    \/ IntLiterals[row[5]] \notin DOMAIN district_mapping
    \/ ContainsMischling(Capitalize[row[6]])

\* line 61: user_id not in district_mapping
IsNewUser(user_id, users) == user_id \notin DOMAIN district_mapping

\* lines 44-66: one pass of the loop over the rows
Load_Row ==
    /\ load_pc = "reading"
    /\ load_pos <= Len(load_file)
    /\ LET row == load_file[load_pos]
           user_id == IntLiterals[row[1]]
           gender == Upper[row[3]]
           district == district_mapping[IntLiterals[row[5]]]
           dog_breed == Breed(Capitalize[row[6]])
           split_age_range == SplitAgeRange[row[2]]
           age == (split_age_range[1] + split_age_range[2]) \div 2
           created == IsNewUser(user_id, load_users)
           new_user == UserObject(load_created + 1, user_id, age, gender, district)
           users == IF created
                    THEN [u \in DOMAIN load_users \cup {user_id} |->
                             IF u = user_id THEN new_user ELSE load_users[u]]
                    ELSE load_users
           with_user == IF created THEN add_vertex(load_graph, new_user) ELSE load_graph
       IN  IF Skipped(row)
           THEN /\ load_pos' = load_pos + 1
                /\ UNCHANGED <<load_users, load_created, load_graph, load_pc>>
           ELSE IF user_id \notin DOMAIN users
           THEN /\ load_pc' = "KeyError"
                /\ UNCHANGED <<load_pos, load_users, load_created, load_graph>>
           ELSE LET added == add_edge(add_vertex(with_user, dog_breed), dog_breed, users[user_id])
                IN  /\ load_users' = users
                    /\ load_created' = IF created THEN load_created + 1 ELSE load_created
                    /\ load_graph' = added.neighbours
                    /\ load_pos' = load_pos + 1
                    /\ load_pc' = IF added.outcome = "returned" THEN "reading" ELSE added.outcome
    /\ UNCHANGED load_file

\* line 67
Load_Return ==
    /\ load_pc = "reading"
    /\ load_pos > Len(load_file)
    /\ load_pc' = "returned"
    /\ UNCHANGED <<load_file, load_pos, load_users, load_created, load_graph>>

\* rows the loop accepts: owner 1 has the id of a district, owners 100 and
\* 101 do not
AcceptedRows ==
    {<<id, "11-20", "m", "2005", "1", breed>> :
        id \in {"1", "100", "101"}, breed \in {"beagle", "BEAGLE", "Pug"}}

\* rows the loop skips: no age range, no gender, unknown district, mixed breed
SkippedRows ==
    { <<"100", "", "m", "2005", "1", "Pug">>, <<"100", "21-30", " ", "2005", "1", "Pug">>,
      <<"100", "21-30", "w", "2005", "9", "Pug">>, <<"100", "21-30", "w", "2005", "3", "mischling">> }

LoadInit ==
    /\ load_file \in SeqsUpTo(AcceptedRows \cup SkippedRows, MaxDogRows)
    /\ load_pos = 1
    /\ load_users = EmptyMap
    /\ load_created = 0
    /\ load_graph = EmptyMap
    /\ load_pc = "reading"

InitLoad == LoadInit /\ CmpIdle /\ RankIdle /\ PrefIdle /\ NormIdle /\ TreeIdle /\ GraphIdle /\ DistIdle /\ DistrictIdle /\ WeighIdle /\ CurveIdle /\ RecIdle /\ QuizIdle

NextLoad ==
    \/ Load_Row /\ UNCHANGED <<cmpVars, rankVars, prefVars, normVars, treeVars, graphVars, distVars, districtVars, weighVars, curveVars, recVars, quizVars>>
    \/ Load_Return /\ UNCHANGED <<cmpVars, rankVars, prefVars, normVars, treeVars, graphVars, distVars, districtVars, weighVars, curveVars, recVars, quizVars>>

SpecLoad == InitLoad /\ [][NextLoad]_vars

\* the owner vertices of the graph built
OwnerVertices == {v \in DOMAIN load_graph : v.kind = "user"}

\* the owner ids of the rows of the file
OwnerIds == {IntLiterals[load_file[i][1]] : i \in DOMAIN load_file}

\* the breeds of the rows of owner id
BreedsOfOwner(id) ==
    {Breed(Capitalize[load_file[i][6]]) :
        i \in {j \in DOMAIN load_file : IntLiterals[load_file[j][1]] = id}}

\* C29: on a file of accepted rows load_dog_data returns without error, and
\* the graph holds exactly one owner vertex per distinct owner id of the rows,
\* adjacent to every breed of that owner's rows, and every edge joins one
\* breed name and one owner.
C29_OneVertexPerOwner ==
    (load_pc \notin {"unused", "reading"}
        /\ \A i \in DOMAIN load_file : ~Skipped(load_file[i]))
    => /\ load_pc = "returned"
       /\ {v.user_id : v \in OwnerVertices} = OwnerIds
       /\ Cardinality(OwnerVertices) = Cardinality(OwnerIds)
       /\ \A v \in OwnerVertices : BreedsOfOwner(v.user_id) \subseteq load_graph[v]
       /\ \A v \in DOMAIN load_graph : \A w \in load_graph[v] : v.kind # w.kind

(***************************************************************************)
(* main.py: Question, NumberQuestion, DropDownQuestion and Questionnaire.  *)
(* questionnaire holds the fields of the object: questions,                *)
(* current_question_index, answers, current_question (the position in      *)
(* questions of the question it refers to, 0 before it is assigned),       *)
(* widgets ("shown" while the label and the widget of a question exist,    *)
(* "cleared" after clear_widgets), next_button ("packed" or "forgotten")   *)
(* and return_bound (a '<Return>' binding is set on the window).           *)
(***************************************************************************)
NumberQuestion(min_val, max_val) ==
    [kind |-> "number", min_val |-> min_val, max_val |-> max_val, options |-> <<>>]

DropDownQuestion(options) ==
    [kind |-> "dropdown", min_val |-> 0, max_val |-> 0, options |-> options]

\* str.isdigit() of the texts of the model
isdigit(text) == text \in {"1", "3", "03", "9", "100", "101"}

\* lines 48-53 and 100-101: "True", "False", or the TclError of entry.get()
\* on an Entry that clear_widgets destroyed
can_update(question, widgets, text) ==
    IF question.kind # "number" THEN "True"
    ELSE IF widgets # "shown" THEN "TclError"
    ELSE IF isdigit(text) /\ question.min_val <= IntLiterals[text]
                          /\ IntLiterals[text] <= question.max_val
         THEN "True" ELSE "False"

\* lines 204-208; the call of line 209 is recorded by the actions
display_results(self) ==
    [self EXCEPT !.widgets = "cleared", !.next_button = "forgotten"]

\* line 175
HasQuestionLeft(self) == self.current_question_index < Len(self.questions)

\* lines 171-193
update_question(self) ==
    IF HasQuestionLeft(self)
    THEN [self EXCEPT !.current_question = self.current_question_index + 1,
                      !.widgets = "shown",
                      !.return_bound = TRUE]
    ELSE display_results(self)

\* lines 195-202 for the text the current widget holds; on_display only
\* moves the focus
next_question(self, text) ==
    IF self.current_question = 0 THEN self
    ELSE IF can_update(self.questions[self.current_question], self.widgets, text) = "True"
         THEN update_question(
                 [self EXCEPT !.answers = Append(@, text),
                              !.current_question_index = @ + 1])
         ELSE self

\* what the widget of the current question can hold: any text typed into an
\* Entry, one of the options of an OptionMenu
WidgetTexts(self) ==
    IF self.current_question = 0 THEN {""}
    ELSE LET question == self.questions[self.current_question]
         IN  IF question.kind = "number"
             THEN IF self.widgets = "shown" THEN {"3", "03", "9", "x"} ELSE {""}
             ELSE Range(question.options)

\* the Next button (line 159) or the Return key (line 191) runs next_question
Quiz_Event(source, text) ==
    /\ quiz_events < MaxEvents
    /\ source = "button" => questionnaire.next_button = "packed"
    /\ source = "return" => questionnaire.return_bound
    /\ text \in WidgetTexts(questionnaire)
    /\ questionnaire' = next_question(questionnaire, text)
    /\ callbacks' =
          IF /\ questionnaire'.current_question_index # questionnaire.current_question_index
             /\ ~HasQuestionLeft(questionnaire')
          THEN Append(callbacks, questionnaire'.answers)
          ELSE callbacks
    /\ quiz_events' = quiz_events + 1

\* the questions of create_preference_questions (lines 216-231)
QuestionPool == {NumberQuestion(1, 5), DropDownQuestion(<<"positive", "negative">>)}

EventSources == {"button", "return"}

EventTexts == {"", "3", "03", "9", "x", "positive", "negative"}

\* lines 133-146 and setup_ui: the object after Questionnaire(questions, ...)
QuizInit ==
    /\ \E questions \in SeqsUpTo(QuestionPool, MaxQuestions) :
          /\ questionnaire =
                update_question([questions |-> questions,
                                 current_question_index |-> 0,
                                 answers |-> <<>>,
                                 current_question |-> 0,
                                 widgets |-> "cleared",
                                 next_button |-> "packed",
                                 return_bound |-> FALSE])
          /\ callbacks = IF questions = <<>> THEN << <<>> >> ELSE <<>>
    /\ quiz_events = 0

InitQuiz == QuizInit /\ CmpIdle /\ RankIdle /\ PrefIdle /\ NormIdle /\ TreeIdle /\ GraphIdle /\ DistIdle /\ DistrictIdle /\ WeighIdle /\ CurveIdle /\ RecIdle /\ LoadIdle

NextQuiz ==
    \E source \in EventSources : \E text \in EventTexts :
       Quiz_Event(source, text) /\ UNCHANGED <<cmpVars, rankVars, prefVars, normVars, treeVars, graphVars, distVars, districtVars, weighVars, curveVars, recVars, loadVars>>

SpecQuiz == InitQuiz /\ [][NextQuiz]_vars

\* the text is an answer the question accepts
ValidAnswer(question, text) ==
    IF question.kind = "number"
    THEN /\ isdigit(text)
         /\ question.min_val <= IntLiterals[text]
         /\ IntLiterals[text] <= question.max_val
    ELSE text \in Range(question.options)

\* C30: over any list of questions and any sequence of next_question events
\* (Next button or Return key, before or after the last question),
\* answer_callback is called at most once, and its argument holds exactly one
\* valid answer per question in question order; an event whose current answer
\* fails can_update changes neither the answers nor current_question_index.
C30_CallbackOnceWithAllAnswers ==
    [][/\ Len(callbacks') <= 1
       /\ \A c \in DOMAIN callbacks' :
             /\ Len(callbacks'[c]) = Len(questionnaire'.questions)
             /\ \A i \in DOMAIN callbacks'[c] :
                   ValidAnswer(questionnaire'.questions[i], callbacks'[c][i])
       /\ \A source \in EventSources : \A text \in EventTexts :
             (/\ Quiz_Event(source, text)
              /\ questionnaire.current_question # 0
              /\ ~ValidAnswer(questionnaire.questions[questionnaire.current_question], text))
             => /\ questionnaire'.answers = questionnaire.answers
                /\ questionnaire'.current_question_index
                      = questionnaire.current_question_index]_vars

====
